---- MODULE Spec2Model ----
(***************************************************************************)
(* Settlement core of the Stacks chainstate: the miner-reward settlement   *)
(* engine of src/chainstate/stacks/db/accounts.rs (payment scheduling,     *)
(* maturity, the proportional coinbase split and the poison-microblock     *)
(* redirection),                                                           *)
(* and the contract-callable asset operations of vm/functions/assets.rs    *)
(* (STX, fungible-token and non-fungible-token transfer, mint and burn).   *)
(*                                                                         *)
(* The specifications:                                                     *)
(*   SpecCalc   : find_mature_miner_rewards / calculate_miner_reward as    *)
(*                pure functions; Init draws the arguments from bounded    *)
(*                sets and the one action applies the function.            *)
(*   Spec       : the chain: blocks are accepted (advance_tip, which calls *)
(*                insert_miner_payment_schedule), poison reports are       *)
(*                filed, and matured rewards are looked up and resolved.   *)
(*   SpecDummy  : the chain when a block may also be accepted with the     *)
(*                tests' dummy reward, whose commit burn is 0.             *)
(*   SpecMiners : the chain when a block's schedule may be inserted more   *)
(*                than once, and get_miner_info looks up the miner row.    *)
(*   SpecStx    : STX transfers and burns over balances with PoX locks.    *)
(*   SpecTokens : fungible-token and non-fungible-token mints, transfers.  *)
(*   SpecReads  : the token operations with ft-get-balance, nft-get-owner.  *)
(*   SpecScope  : token calls with any amount of memory left, inside the   *)
(*                enclosing scope that rolls a failed call back.           *)
(*   SpecCap    : a fungible asset whose maximum supply is the largest     *)
(*                u128, minted and transferred up to that maximum.         *)
(*   SpecAssets : the STX, token and NFT operations side by side.          *)
(***************************************************************************)
EXTENDS Integers, Sequences, FiniteSets, TLC

VARIABLES
    headers,          \* block id -> StacksHeaderInfo of every accepted block
    payments,         \* the payments table: sequence of stored rows, in insertion order
    poison_reports,   \* height -> Option<(reporter, seq)>: the contract state read by get_poison_microblock_report
    mainnet,          \* clarity_tx.config.mainnet
    op,               \* the operation that ran last
    tip,              \* the StacksHeaderInfo the last operation was given
    latest_matured_miners, \* the schedule list handed to find_mature_miner_rewards
    inserted,         \* the (block_reward, user_burns) the last advance_tip scheduled, if any
    ret,              \* what the last operation returned
    accepted,         \* block id -> the (block_reward, user_burns) the block was accepted with
    database          \* the ClarityDatabase: STX balances, burn height, FT and NFT records

vars == <<headers, payments, poison_reports, mainnet, op, tip, latest_matured_miners, inserted, ret,
          accepted, database>>

----------------------------------------------------------------------------
(* Bounds of the model *)

\* Integer widths are scaled: u64 is WordBits wide, u128 twice that.
WordBits == 8
\* Longest list of burn-supporters of one block.
MaxUsers == 2
\* Most blocks accepted after genesis.
MaxBlocks == 4

\* Most miner rows stored for one block.
MaxMinerRows == 2
\* Most blocks accepted after genesis where schedules may be inserted again.
MaxMinerBlocks == 2

U64_MAX == 2^WordBits - 1
I64_MAX == 2^(WordBits - 1) - 1
U128_MAX == 2^(2 * WordBits) - 1

(* Program constants, set in chainstate/stacks/mod.rs.  The maturity window *)
(* is scaled down; the code only ever compares heights against it.          *)
MINER_REWARD_MATURITY == 2
POISON_MICROBLOCK_COMMISSION_FRACTION == 5

----------------------------------------------------------------------------
(* Option / Result values *)

None == [tag |-> "None"]
Some(v) == [tag |-> "Some", v |-> v]
Panic(msg) == [tag |-> "Panic", msg |-> msg]
Pending == [tag |-> "Pending"]

is_some(o) == o.tag = "Some"
is_panic(o) == o.tag = "Panic"

checked_add(a, b) == IF a + b > U128_MAX THEN None ELSE Some(a + b)
checked_mul(a, b) == IF a * b > U128_MAX THEN None ELSE Some(a * b)

----------------------------------------------------------------------------
(* Addresses and hashes *)

burn_address(is_mainnet) == IF is_mainnet THEN "SP_BURN" ELSE "ST_BURN"

block_hash_of(id) == <<"block", id>>
consensus_hash_of(id) == <<"consensus", id>>
FIRST_STACKS_BLOCK_HASH == block_hash_of(0)
FIRST_BURNCHAIN_CONSENSUS_HASH == consensus_hash_of(0)
make_index_block_hash(consensus_hash, block_hash) == <<"index", consensus_hash, block_hash>>

----------------------------------------------------------------------------
(* MinerReward *)

MinerReward(address, coinbase, tx_fees_anchored, tx_fees_streamed_produced, tx_fees_streamed_confirmed, vtxindex) ==
    [address |-> address,
     coinbase |-> coinbase,
     tx_fees_anchored |-> tx_fees_anchored,
     tx_fees_streamed_produced |-> tx_fees_streamed_produced,
     tx_fees_streamed_confirmed |-> tx_fees_streamed_confirmed,
     vtxindex |-> vtxindex]

total(r) ==
    r.coinbase + r.tx_fees_anchored + r.tx_fees_streamed_produced
        + r.tx_fees_streamed_confirmed

----------------------------------------------------------------------------
(* calculate_miner_reward *)

\* Mutant: the percentage is taken after dividing, losing the remainder.
poison_microblock_commission_divides_first(coinbase) ==
    (coinbase \div 100) * POISON_MICROBLOCK_COMMISSION_FRACTION

poison_microblock_commission(coinbase) ==
    (coinbase * POISON_MICROBLOCK_COMMISSION_FRACTION) \div 100

\* The miner branch's loop: total_user after the first n user rows.
RECURSIVE total_user_burn(_, _)
total_user_burn(users, n) ==
    IF n = 0 THEN Some(0)
    ELSE LET prev == total_user_burn(users, n - 1) IN
         IF ~is_some(prev) THEN None
         ELSE checked_add(prev.v, users[n].burnchain_commit_burn)

\* The supporter branch's loop: (this_user, total_other) after the first n user rows.
RECURSIVE user_burn_split(_, _, _, _)
user_burn_split(participant, miner, users, n) ==
    IF n = 0 THEN Some([this_user |-> 0, total_other |-> miner.burnchain_commit_burn])
    ELSE LET prev == user_burn_split(participant, miner, users, n - 1) IN
         IF ~is_some(prev) THEN None
         ELSE IF users[n].address # participant.address
              THEN LET s == checked_add(prev.v.total_other, users[n].burnchain_commit_burn) IN
                   IF ~is_some(s) THEN None
                   ELSE Some([this_user |-> prev.v.this_user, total_other |-> s.v])
              ELSE Some([this_user |-> users[n].burnchain_commit_burn,
                         total_other |-> prev.v.total_other])

\* (this_burn_total, other_burn_total)
burn_totals(participant, miner, users) ==
    IF participant.address = miner.address
    THEN LET t == total_user_burn(users, Len(users)) IN
         IF ~is_some(t) THEN None
         ELSE Some([this_burn_total |-> participant.burnchain_commit_burn,
                    other_burn_total |-> t.v])
    ELSE LET s == user_burn_split(participant, miner, users, Len(users)) IN
         IF ~is_some(s) THEN None
         ELSE Some([this_burn_total |-> s.v.this_user,
                    other_burn_total |-> s.v.total_other])

\* Mutant: under a poison report the supporters are still paid at their own address.
poison_recipient_pays_users(is_mainnet, participant, miner, coinbase_reward, poison_reporter_opt) ==
    IF is_some(poison_reporter_opt) /\ participant.address = miner.address
    THEN [recipient |-> poison_reporter_opt.v,
          coinbase_reward |-> poison_microblock_commission(coinbase_reward)]
    ELSE [recipient |-> participant.address, coinbase_reward |-> coinbase_reward]

\* Mutant: under a poison report the supporters' slots carry nothing.
poison_recipient_zeroes_users(is_mainnet, participant, miner, coinbase_reward, poison_reporter_opt) ==
    IF is_some(poison_reporter_opt)
    THEN IF participant.address = miner.address
         THEN [recipient |-> poison_reporter_opt.v,
               coinbase_reward |-> poison_microblock_commission(coinbase_reward)]
         ELSE [recipient |-> burn_address(is_mainnet), coinbase_reward |-> 0]
    ELSE [recipient |-> participant.address, coinbase_reward |-> coinbase_reward]

poison_recipient(is_mainnet, participant, miner, coinbase_reward, poison_reporter_opt) ==
    IF is_some(poison_reporter_opt)
    THEN IF participant.address = miner.address
         THEN [recipient |-> poison_reporter_opt.v,
               coinbase_reward |-> poison_microblock_commission(coinbase_reward)]
         ELSE [recipient |-> burn_address(is_mainnet),
               coinbase_reward |-> coinbase_reward]
    ELSE [recipient |-> participant.address, coinbase_reward |-> coinbase_reward]

\* Mutant: the participant's declared fees are passed through.
stub_miner_reward_with_fees(recipient, coinbase_reward, participant, miner) ==
    MinerReward(recipient, coinbase_reward, participant.tx_fees_anchored, participant.tx_fees_streamed, 0, miner.vtxindex)

\* The fee stub and the reward record: fees are not calculated.
stub_miner_reward(recipient, coinbase_reward, participant, miner) ==
    MinerReward(recipient, coinbase_reward, 0, 0, 0, miner.vtxindex)

\* Mutant: the share is rounded up instead of down.
calculate_miner_reward_rounds_up(is_mainnet, participant, miner, users, poison_reporter_opt) ==
    LET bt == burn_totals(participant, miner, users) IN
    IF ~is_some(bt) THEN Panic("FATAL: user support burn overflow")
    ELSE
    LET burn_total == checked_add(bt.v.other_burn_total, bt.v.this_burn_total) IN
    IF ~is_some(burn_total) THEN Panic("FATAL: combined burns exceed u128")
    ELSE
    LET product == checked_mul(participant.coinbase, bt.v.this_burn_total) IN
    IF ~is_some(product) THEN Panic("FATAL: STX coinbase reward overflow")
    ELSE IF burn_total.v = 0 THEN Panic("attempt to divide by zero")
    ELSE
    LET coinbase_reward == (product.v + burn_total.v - 1) \div burn_total.v
        p == poison_recipient(is_mainnet, participant, miner, coinbase_reward,
                              poison_reporter_opt)
    IN  Some(stub_miner_reward(p.recipient, p.coinbase_reward, participant, miner))

calculate_miner_reward(is_mainnet, participant, miner, users, poison_reporter_opt) ==
    LET bt == burn_totals(participant, miner, users) IN
    IF ~is_some(bt) THEN Panic("FATAL: user support burn overflow")
    ELSE
    LET burn_total == checked_add(bt.v.other_burn_total, bt.v.this_burn_total) IN
    IF ~is_some(burn_total) THEN Panic("FATAL: combined burns exceed u128")
    ELSE
    LET product == checked_mul(participant.coinbase, bt.v.this_burn_total) IN
    IF ~is_some(product) THEN Panic("FATAL: STX coinbase reward overflow")
    ELSE IF burn_total.v = 0 THEN Panic("attempt to divide by zero")
    ELSE
    LET coinbase_reward == product.v \div burn_total.v
        p == poison_recipient(is_mainnet, participant, miner, coinbase_reward,
                              poison_reporter_opt)
    IN  Some(stub_miner_reward(p.recipient, p.coinbase_reward, participant, miner))

----------------------------------------------------------------------------
(* find_mature_miner_rewards *)

get_poison_microblock_report(reports, height) ==
    IF height \in DOMAIN reports /\ is_some(reports[height])
    THEN Some(<<reports[height].v.reporter, reports[height].v.seq>>)
    ELSE None

\* Mutant: each supporter's reward is put in front of the earlier ones.
RECURSIVE user_rewards_of_reversed(_, _, _, _, _)
user_rewards_of_reversed(is_mainnet, miner, users, poison_recipient_opt, n) ==
    IF n = 0 THEN Some(<<>>)
    ELSE LET prev == user_rewards_of_reversed(is_mainnet, miner, users, poison_recipient_opt, n - 1) IN
         IF ~is_some(prev) THEN prev
         ELSE LET reward == calculate_miner_reward(is_mainnet, users[n], miner, users,
                                                   poison_recipient_opt) IN
              IF ~is_some(reward) THEN reward
              ELSE Some(<<reward.v>> \o prev.v)

\* user_rewards after the first n user rows; None if a calculation panicked.
RECURSIVE user_rewards_of(_, _, _, _, _)
user_rewards_of(is_mainnet, miner, users, poison_recipient_opt, n) ==
    IF n = 0 THEN Some(<<>>)
    ELSE LET prev == user_rewards_of(is_mainnet, miner, users, poison_recipient_opt, n - 1) IN
         IF ~is_some(prev) THEN prev
         ELSE LET reward == calculate_miner_reward(is_mainnet, users[n], miner, users,
                                                   poison_recipient_opt) IN
              IF ~is_some(reward) THEN reward
              ELSE Some(Append(prev.v, reward.v))

\* Mutant: the maturity test is strict.
no_mature_rewards_strict(tip_info) == tip_info.block_height < MINER_REWARD_MATURITY

\* "no mature rewards exist"
no_mature_rewards(tip_info) == tip_info.block_height <= MINER_REWARD_MATURITY

find_mature_miner_rewards(is_mainnet, reports, tip_info, matured) ==
    IF no_mature_rewards(tip_info)
    THEN Some(None)
    ELSE
    LET reward_height == tip_info.block_height - MINER_REWARD_MATURITY IN
    IF ~(Len(matured) > 0) THEN Panic("assert latest_matured_miners.len() > 0")
    ELSE IF ~(matured[1].vtxindex = 0) THEN Panic("assert latest_matured_miners[0].vtxindex == 0")
    ELSE IF ~matured[1].miner THEN Panic("assert latest_matured_miners[0].miner")
    ELSE
    LET users == Tail(matured)
        miner == matured[1]
        reward_info == [from_stacks_block_hash |-> miner.block_hash,
                        from_block_consensus_hash |-> miner.consensus_hash]
        report == get_poison_microblock_report(reports, reward_height)
        poison_recipient_opt == IF is_some(report) THEN Some(report.v[1]) ELSE None
        miner_reward == calculate_miner_reward(is_mainnet, miner, miner, users,
                                               poison_recipient_opt)
        user_rewards == user_rewards_of(is_mainnet, miner, users, poison_recipient_opt,
                                        Len(users))
    IN  IF ~is_some(miner_reward) THEN miner_reward
        ELSE IF ~is_some(user_rewards) THEN user_rewards
        ELSE Some(Some([miner_reward |-> miner_reward.v,
                        user_rewards |-> user_rewards.v,
                        reward_info |-> reward_info]))

----------------------------------------------------------------------------
(* Schedule rows as the tests build them *)

make_dummy_miner_payment_schedule(addr, coinbase, tx_fees_anchored, tx_fees_streamed, commit_burn, sortition_burn) ==
    [address |-> addr,
     block_hash |-> FIRST_STACKS_BLOCK_HASH,
     consensus_hash |-> FIRST_BURNCHAIN_CONSENSUS_HASH,
     parent_block_hash |-> FIRST_STACKS_BLOCK_HASH,
     parent_consensus_hash |-> FIRST_BURNCHAIN_CONSENSUS_HASH,
     coinbase |-> coinbase,
     tx_fees_anchored |-> tx_fees_anchored,
     tx_fees_streamed |-> tx_fees_streamed,
     stx_burns |-> 0,
     burnchain_commit_burn |-> commit_burn,
     burnchain_sortition_burn |-> sortition_burn,
     fill |-> U64_MAX,
     miner |-> TRUE,
     stacks_block_height |-> 0,
     vtxindex |-> 0]

make_dummy_user_payment_schedule(addr, coinbase, tx_fees_anchored, tx_fees_streamed, commit_burn, sortition_burn, vtxindex) ==
    [make_dummy_miner_payment_schedule(addr, coinbase, tx_fees_anchored, tx_fees_streamed, commit_burn, sortition_burn)
        EXCEPT !.miner = FALSE, !.vtxindex = vtxindex]

----------------------------------------------------------------------------
(* Input sets of SpecCalc *)

MinerAddr == "SP_MINER"
UserAddrs == {"SP_MINER", "SP_USER1", "SP_USER2"}
Reporters == {"SP_MINER", "SP_USER1", "SP_REPORTER"}

\* A coinbase whose product with the largest commit overflows u128, while its
\* poison commission does not.
BigCoinbase == U128_MAX \div POISON_MICROBLOCK_COMMISSION_FRACTION
Coinbases == {7, 500, BigCoinbase}
MinerCommits == {0, 2, 6}
UserCommits == {2, 6}
Fees == {0, 10}

\* The supporter rows of one block: row i has vtxindex i (the table is read
\* back ORDER BY vtxindex ASC) and declares the miner's coinbase.
UserRowLists(coinbase, fee) ==
    UNION {
        { [i \in 1..n |->
              make_dummy_user_payment_schedule(a[i], coinbase, fee, fee, c[i], 20, i)] :
          a \in [1..n -> UserAddrs], c \in [1..n -> UserCommits] } :
        n \in 0..MaxUsers }

MaturedLists ==
    UNION {
        { <<make_dummy_miner_payment_schedule(MinerAddr, coinbase, fee, fee, m, 20)>> \o us :
          us \in UserRowLists(coinbase, fee) } :
        coinbase \in Coinbases, fee \in Fees, m \in MinerCommits }

\* Lists the caller must never pass: empty, or not led by the miner row.
MalformedLists ==
    { <<>>,
      <<make_dummy_user_payment_schedule("SP_USER1", 500, 0, 0, 2, 20, 1)>>,
      <<make_dummy_user_payment_schedule("SP_USER1", 500, 0, 0, 2, 20, 0)>>,
      <<[make_dummy_miner_payment_schedule(MinerAddr, 500, 0, 0, 2, 20) EXCEPT !.vtxindex = 1]>> }

CalcTipHeights == {0, MINER_REWARD_MATURITY, MINER_REWARD_MATURITY + 1, MINER_REWARD_MATURITY + 2}
MaxHeight == MaxBlocks

NoReports == [h \in 0..MaxHeight |-> None]
ReportAt(height, reporter) ==
    [h \in 0..MaxHeight |-> IF h = height THEN Some([reporter |-> reporter, seq |-> 1]) ELSE None]

header_info(id, parent, height) ==
    [block_hash |-> block_hash_of(id),
     consensus_hash |-> consensus_hash_of(id),
     parent_block |-> parent,
     block_height |-> height]

regtest_genesis == header_info(0, 0, 0)

----------------------------------------------------------------------------
(* The Clarity database: STX balances behind balance snapshots, and the    *)
(* fungible and non-fungible asset records of one contract.                *)

\* Largest amount an operation is called with.
MaxAmount == 2
\* Highest burnchain block height the chain reaches.
MaxBurnHeight == 2
\* Declared maximum total supply of the fungible token.
MaxSupply == 2
\* Most STX the accounts hold together: no credit is made beyond it.
MaxStx == 2

Principals == {"SP_ALICE", "SP_BOB", "SP_CAROL"}
\* Values of the non-fungible asset's declared key type, and one value that
\* the declared type does not admit.
NftValues == {"u1"}
AssetValues == NftValues \cup {"ill-typed"}

STXBalance(amount_unlocked, amount_locked, unlock_height) ==
    [amount_unlocked |-> amount_unlocked, amount_locked |-> amount_locked, unlock_height |-> unlock_height]

\* The database the operations start from: balances as genesis left them,
\* no token minted yet.
InitDatabase ==
    [stx |-> [p \in Principals |->
                 IF p = "SP_ALICE" THEN STXBalance(2, 0, 0) ELSE STXBalance(0, 0, 0)],
     burn_block_height |-> 0,
     ft_total_supply |-> MaxSupply,
     ft_supply |-> 0,
     ft_balance |-> [p \in Principals |-> 0],
     nft_owner |-> [v \in NftValues |-> None]]

\* All STX the accounts hold, unlocked and locked.
RECURSIVE SumOver(_, _)
SumOver(f, S) ==
    IF S = {} THEN 0 ELSE LET x == CHOOSE x \in S : TRUE IN f[x] + SumOver(f, S \ {x})

TotalStx(db) ==
    SumOver([p \in Principals |-> db.stx[p].amount_unlocked + db.stx[p].amount_locked], Principals)

\* Balance snapshot: the lock of a balance whose unlock height the chain has
\* reached is folded into the unlocked amount when the snapshot is read.
has_unlockable_tokens(balance, burn_block_height) ==
    balance.amount_locked > 0 /\ balance.unlock_height <= burn_block_height

unlock_available_tokens(balance, burn_block_height) ==
    IF has_unlockable_tokens(balance, burn_block_height)
    THEN STXBalance(balance.amount_unlocked + balance.amount_locked, 0, 0)
    ELSE balance

get_stx_balance_snapshot(db, principal) ==
    [principal |-> principal,
     balance |-> unlock_available_tokens(db.stx[principal], db.burn_block_height)]

get_available_balance(snapshot) == snapshot.balance.amount_unlocked
can_transfer(snapshot, amount) == amount <= snapshot.balance.amount_unlocked
has_locked_tokens(snapshot) == snapshot.balance.amount_locked > 0

\* debit without a prior can_transfer is fatal.
debit(snapshot, amount) ==
    IF amount > snapshot.balance.amount_unlocked THEN Panic("debit without sufficient balance")
    ELSE Some([snapshot EXCEPT !.balance.amount_unlocked = @ - amount])

credit(snapshot, amount) ==
    LET sum == checked_add(snapshot.balance.amount_unlocked, amount) IN
    IF ~is_some(sum) THEN Panic("STX overflow")
    ELSE Some([snapshot EXCEPT !.balance.amount_unlocked = sum.v])

lock_tokens(snapshot, amount_to_lock, unlock_burn_height) ==
    [snapshot EXCEPT !.balance = STXBalance(@.amount_unlocked - amount_to_lock,
                                             amount_to_lock, unlock_burn_height)]

save(db, snapshot) == [db EXCEPT !.stx[snapshot.principal] = snapshot.balance]

\* The genesis path reads the balance as persisted, no lock looked at.
STXBalance_initial(amount_unlocked) == STXBalance(amount_unlocked, 0, 0)
get_stx_balance_snapshot_genesis(db, principal) ==
    [principal |-> principal, balance |-> db.stx[principal]]
set_balance(snapshot, balance) == [snapshot EXCEPT !.balance = balance]

\* Debit of the snapshot's principal and credit of the recipient, both saved
\* or neither.
transfer_to(db, snapshot, recipient, amount) ==
    LET debited == debit(snapshot, amount) IN
    IF ~is_some(debited) THEN debited
    ELSE LET credited == credit(get_stx_balance_snapshot(save(db, debited.v), recipient), amount) IN
         IF ~is_some(credited) THEN [tag |-> "Err", msg |-> "ArithmeticOverflow"]
         ELSE Some(save(save(db, debited.v), credited.v))

\* Asset records of the contract's fungible token and non-fungible asset.
checked_increase_token_supply(db, amount) ==
    LET new_supply == checked_add(db.ft_supply, amount) IN
    IF ~is_some(new_supply) THEN [tag |-> "Err", msg |-> "ArithmeticOverflow"]
    ELSE IF new_supply.v > db.ft_total_supply THEN [tag |-> "Err", msg |-> "SupplyOverflow"]
    ELSE Some([db EXCEPT !.ft_supply = new_supply.v])

get_ft_balance(db, principal) == db.ft_balance[principal]
set_ft_balance(db, principal, balance) == [db EXCEPT !.ft_balance[principal] = balance]

admits(asset) == asset \in NftValues
\* None is Err(NoSuchToken).
get_nft_owner(db, asset) == db.nft_owner[asset]
set_nft_owner(db, asset, principal) == [db EXCEPT !.nft_owner[asset] = Some(principal)]

----------------------------------------------------------------------------
(* The contract-callable asset operations of vm/functions/assets.rs.  Each *)
(* takes the Environment (database, tx sender, memory left) and returns    *)
(* its result, the database it leaves and the events it registered.        *)

MintAssetErrorCodes == [ALREADY_EXIST |-> 1]
MintTokenErrorCodes == [NON_POSITIVE_AMOUNT |-> 1]
TransferAssetErrorCodes == [NOT_OWNED_BY |-> 1, SENDER_IS_RECIPIENT |-> 2, DOES_NOT_EXIST |-> 3]
TransferTokenErrorCodes == [NOT_ENOUGH_BALANCE |-> 1, SENDER_IS_RECIPIENT |-> 2, NON_POSITIVE_AMOUNT |-> 3]
StxErrorCodes == [NOT_ENOUGH_BALANCE |-> 1, SENDER_IS_RECIPIENT |-> 2, NON_POSITIVE_AMOUNT |-> 3, SENDER_IS_NOT_TX_SENDER |-> 4]

okay_true == [tag |-> "ok", v |-> TRUE]
err_uint(code) == [tag |-> "err", v |-> code]
clarity_ecode(thing) == Some(err_uint(thing))
RuntimeError(msg) == [tag |-> "Err", msg |-> msg]

Outcome(result, db, events) == [result |-> result, database |-> db, events |-> events]
\* An early return: nothing written, nothing registered.
Returns(env, result) == Outcome(result, env.database, <<>>)

\* env.add_memory, called `units` times in a row: FALSE is the cost-limit error.
add_memory(env, units) == env.memory >= units

\* Mutant: the balance is tested before the sender is authenticated.
stx_transfer_consolidated_balance_first(env, from, to, amount) ==
    IF amount <= 0 THEN Returns(env, clarity_ecode(StxErrorCodes.NON_POSITIVE_AMOUNT))
    ELSE IF from = to THEN Returns(env, clarity_ecode(StxErrorCodes.SENDER_IS_RECIPIENT))
    ELSE IF ~can_transfer(get_stx_balance_snapshot(env.database, from), amount)
    THEN Returns(env, clarity_ecode(StxErrorCodes.NOT_ENOUGH_BALANCE))
    ELSE IF Some(from) # env.sender
    THEN Returns(env, clarity_ecode(StxErrorCodes.SENDER_IS_NOT_TX_SENDER))
    ELSE LET transferred == transfer_to(env.database, get_stx_balance_snapshot(env.database, from), to, amount) IN
         IF ~is_some(transferred) THEN Returns(env, transferred)
         ELSE Outcome(Some(okay_true), transferred.v,
                      <<[event |-> "stx_transfer", sender |-> from, recipient |-> to, amount |-> amount]>>)

\* Mutant: the sender is debited, the recipient is not credited.
stx_transfer_consolidated_debit_only(env, from, to, amount) ==
    IF amount <= 0 THEN Returns(env, clarity_ecode(StxErrorCodes.NON_POSITIVE_AMOUNT))
    ELSE IF from = to THEN Returns(env, clarity_ecode(StxErrorCodes.SENDER_IS_RECIPIENT))
    ELSE IF Some(from) # env.sender
    THEN Returns(env, clarity_ecode(StxErrorCodes.SENDER_IS_NOT_TX_SENDER))
    ELSE LET sender_snapshot == get_stx_balance_snapshot(env.database, from) IN
         IF ~can_transfer(sender_snapshot, amount)
         THEN Returns(env, clarity_ecode(StxErrorCodes.NOT_ENOUGH_BALANCE))
         ELSE Outcome(Some(okay_true), save(env.database, debit(sender_snapshot, amount).v),
                      <<[event |-> "stx_transfer", sender |-> from, recipient |-> to, amount |-> amount]>>)

\* Mutant: the self-transfer test is left out.
stx_transfer_consolidated_to_self(env, from, to, amount) ==
    IF amount <= 0 THEN Returns(env, clarity_ecode(StxErrorCodes.NON_POSITIVE_AMOUNT))
    ELSE IF Some(from) # env.sender
    THEN Returns(env, clarity_ecode(StxErrorCodes.SENDER_IS_NOT_TX_SENDER))
    ELSE LET sender_snapshot == get_stx_balance_snapshot(env.database, from) IN
         IF ~can_transfer(sender_snapshot, amount)
         THEN Returns(env, clarity_ecode(StxErrorCodes.NOT_ENOUGH_BALANCE))
         ELSE LET transferred == transfer_to(env.database, sender_snapshot, to, amount) IN
              IF ~is_some(transferred) THEN Returns(env, transferred)
              ELSE Outcome(Some(okay_true), transferred.v,
                           <<[event |-> "stx_transfer", sender |-> from, recipient |-> to, amount |-> amount]>>)

\* Mutant: the sender's balance is read without the lazy unlock.
stx_transfer_consolidated_no_unlock(env, from, to, amount) ==
    IF amount <= 0 THEN Returns(env, clarity_ecode(StxErrorCodes.NON_POSITIVE_AMOUNT))
    ELSE IF from = to THEN Returns(env, clarity_ecode(StxErrorCodes.SENDER_IS_RECIPIENT))
    ELSE IF Some(from) # env.sender
    THEN Returns(env, clarity_ecode(StxErrorCodes.SENDER_IS_NOT_TX_SENDER))
    ELSE LET sender_snapshot == get_stx_balance_snapshot_genesis(env.database, from) IN
         IF ~can_transfer(sender_snapshot, amount)
         THEN Returns(env, clarity_ecode(StxErrorCodes.NOT_ENOUGH_BALANCE))
         ELSE LET transferred == transfer_to(env.database, sender_snapshot, to, amount) IN
              IF ~is_some(transferred) THEN Returns(env, transferred)
              ELSE Outcome(Some(okay_true), transferred.v,
                           <<[event |-> "stx_transfer", sender |-> from, recipient |-> to, amount |-> amount]>>)

stx_transfer_consolidated(env, from, to, amount) ==
    IF amount <= 0 THEN Returns(env, clarity_ecode(StxErrorCodes.NON_POSITIVE_AMOUNT))
    ELSE IF from = to THEN Returns(env, clarity_ecode(StxErrorCodes.SENDER_IS_RECIPIENT))
    ELSE IF Some(from) # env.sender
    THEN Returns(env, clarity_ecode(StxErrorCodes.SENDER_IS_NOT_TX_SENDER))
    ELSE IF ~add_memory(env, 4) THEN Returns(env, RuntimeError("MemoryBalanceExceeded"))
    ELSE LET sender_snapshot == get_stx_balance_snapshot(env.database, from) IN
         IF ~can_transfer(sender_snapshot, amount)
         THEN Returns(env, clarity_ecode(StxErrorCodes.NOT_ENOUGH_BALANCE))
         ELSE LET transferred == transfer_to(env.database, sender_snapshot, to, amount) IN
              IF ~is_some(transferred) THEN Returns(env, transferred)
              ELSE Outcome(Some(okay_true), transferred.v,
                           <<[event |-> "stx_transfer", sender |-> from, recipient |-> to, amount |-> amount]>>)

special_stx_transfer(env, amount, from, to) == stx_transfer_consolidated(env, from, to, amount)

\* Mutant: the burner is not authenticated.
special_stx_burn_unauthenticated(env, amount, from) ==
    IF amount <= 0 THEN Returns(env, clarity_ecode(StxErrorCodes.NON_POSITIVE_AMOUNT))
    ELSE LET burner_snapshot == get_stx_balance_snapshot(env.database, from) IN
         IF ~can_transfer(burner_snapshot, amount)
         THEN Returns(env, clarity_ecode(StxErrorCodes.NOT_ENOUGH_BALANCE))
         ELSE Outcome(Some(okay_true), save(env.database, debit(burner_snapshot, amount).v),
                      <<[event |-> "stx_burn", sender |-> from, amount |-> amount]>>)

\* Mutant: the debited snapshot is dropped without save().
special_stx_burn_unsaved(env, amount, from) ==
    IF amount <= 0 THEN Returns(env, clarity_ecode(StxErrorCodes.NON_POSITIVE_AMOUNT))
    ELSE IF Some(from) # env.sender
    THEN Returns(env, clarity_ecode(StxErrorCodes.SENDER_IS_NOT_TX_SENDER))
    ELSE IF ~can_transfer(get_stx_balance_snapshot(env.database, from), amount)
    THEN Returns(env, clarity_ecode(StxErrorCodes.NOT_ENOUGH_BALANCE))
    ELSE Outcome(Some(okay_true), env.database,
                 <<[event |-> "stx_burn", sender |-> from, amount |-> amount]>>)

special_stx_burn(env, amount, from) ==
    IF amount <= 0 THEN Returns(env, clarity_ecode(StxErrorCodes.NON_POSITIVE_AMOUNT))
    ELSE IF Some(from) # env.sender
    THEN Returns(env, clarity_ecode(StxErrorCodes.SENDER_IS_NOT_TX_SENDER))
    ELSE IF ~add_memory(env, 2) THEN Returns(env, RuntimeError("MemoryBalanceExceeded"))
    ELSE LET burner_snapshot == get_stx_balance_snapshot(env.database, from) IN
         IF ~can_transfer(burner_snapshot, amount)
         THEN Returns(env, clarity_ecode(StxErrorCodes.NOT_ENOUGH_BALANCE))
         ELSE Outcome(Some(okay_true), save(env.database, debit(burner_snapshot, amount).v),
                      <<[event |-> "stx_burn", sender |-> from, amount |-> amount]>>)

\* Mutant: a mint of nothing succeeds.
special_mint_token_accepts_zero(env, amount, to_principal) ==
    LET increased == checked_increase_token_supply(env.database, amount) IN
    IF ~is_some(increased) THEN Returns(env, increased)
    ELSE Outcome(Some(okay_true),
                 set_ft_balance(increased.v, to_principal, get_ft_balance(increased.v, to_principal) + amount),
                 <<[event |-> "ft_mint", recipient |-> to_principal, amount |-> amount]>>)

\* Mutant: the supply is increased without the check against the declared maximum.
special_mint_token_unchecked(env, amount, to_principal) ==
    IF amount <= 0 THEN Returns(env, clarity_ecode(MintTokenErrorCodes.NON_POSITIVE_AMOUNT))
    ELSE Outcome(Some(okay_true),
                 set_ft_balance([env.database EXCEPT !.ft_supply = @ + amount], to_principal,
                                get_ft_balance(env.database, to_principal) + amount),
                 <<[event |-> "ft_mint", recipient |-> to_principal, amount |-> amount]>>)

\* An error raised after checked_increase_token_supply leaves the supply
\* increased in the database the call returns.
\* Mutant: the memory is accounted for before the supply is increased.
special_mint_token_memory_first(env, amount, to_principal) ==
    IF amount <= 0 THEN Returns(env, clarity_ecode(MintTokenErrorCodes.NON_POSITIVE_AMOUNT))
    ELSE IF ~add_memory(env, 2) THEN Returns(env, RuntimeError("MemoryBalanceExceeded"))
    ELSE LET increased == checked_increase_token_supply(env.database, amount) IN
         IF ~is_some(increased) THEN Returns(env, increased)
         ELSE LET to_bal == get_ft_balance(increased.v, to_principal)
                  final_to_bal == checked_add(to_bal, amount)
              IN  IF ~is_some(final_to_bal) THEN Outcome(Panic("STX overflow"), increased.v, <<>>)
                  ELSE Outcome(Some(okay_true),
                               set_ft_balance(increased.v, to_principal, final_to_bal.v),
                               <<[event |-> "ft_mint", recipient |-> to_principal, amount |-> amount]>>)

special_mint_token(env, amount, to_principal) ==
    IF amount <= 0 THEN Returns(env, clarity_ecode(MintTokenErrorCodes.NON_POSITIVE_AMOUNT))
    ELSE LET increased == checked_increase_token_supply(env.database, amount) IN
         IF ~is_some(increased) THEN Returns(env, increased)
         ELSE LET to_bal == get_ft_balance(increased.v, to_principal)
                  final_to_bal == checked_add(to_bal, amount)
              IN  IF ~is_some(final_to_bal) THEN Outcome(Panic("STX overflow"), increased.v, <<>>)
                  ELSE IF ~add_memory(env, 2)
                  THEN Outcome(RuntimeError("MemoryBalanceExceeded"), increased.v, <<>>)
                  ELSE Outcome(Some(okay_true),
                               set_ft_balance(increased.v, to_principal, final_to_bal.v),
                               <<[event |-> "ft_mint", recipient |-> to_principal, amount |-> amount]>>)

\* Mutant: a mint of a value that has an owner overwrites the owner.
special_mint_asset_overwrites(env, asset, to_principal) ==
    IF ~admits(asset) THEN Returns(env, RuntimeError("TypeValueError"))
    ELSE Outcome(Some(okay_true), set_nft_owner(env.database, asset, to_principal),
                 <<[event |-> "nft_mint", recipient |-> to_principal, value |-> asset]>>)

special_mint_asset(env, asset, to_principal) ==
    IF ~admits(asset) THEN Returns(env, RuntimeError("TypeValueError"))
    ELSE IF is_some(get_nft_owner(env.database, asset))
    THEN Returns(env, clarity_ecode(MintAssetErrorCodes.ALREADY_EXIST))
    ELSE IF ~add_memory(env, 2) THEN Returns(env, RuntimeError("MemoryBalanceExceeded"))
    ELSE Outcome(Some(okay_true), set_nft_owner(env.database, asset, to_principal),
                 <<[event |-> "nft_mint", recipient |-> to_principal, value |-> asset]>>)

\* Mutant: the recorded owner is not compared with from.
special_transfer_asset_any_owner(env, asset, from_principal, to_principal) ==
    IF ~admits(asset) THEN Returns(env, RuntimeError("TypeValueError"))
    ELSE IF from_principal = to_principal
    THEN Returns(env, clarity_ecode(TransferAssetErrorCodes.SENDER_IS_RECIPIENT))
    ELSE IF ~is_some(get_nft_owner(env.database, asset))
    THEN Returns(env, clarity_ecode(TransferAssetErrorCodes.DOES_NOT_EXIST))
    ELSE Outcome(Some(okay_true), set_nft_owner(env.database, asset, to_principal),
                 <<[event |-> "nft_transfer", sender |-> from_principal,
                    recipient |-> to_principal, value |-> asset]>>)

special_transfer_asset(env, asset, from_principal, to_principal) ==
    IF ~admits(asset) THEN Returns(env, RuntimeError("TypeValueError"))
    ELSE IF from_principal = to_principal
    THEN Returns(env, clarity_ecode(TransferAssetErrorCodes.SENDER_IS_RECIPIENT))
    ELSE LET current_owner == get_nft_owner(env.database, asset) IN
         IF ~is_some(current_owner)
         THEN Returns(env, clarity_ecode(TransferAssetErrorCodes.DOES_NOT_EXIST))
         ELSE IF current_owner.v # from_principal
         THEN Returns(env, clarity_ecode(TransferAssetErrorCodes.NOT_OWNED_BY))
         ELSE IF ~add_memory(env, 2) THEN Returns(env, RuntimeError("MemoryBalanceExceeded"))
         ELSE Outcome(Some(okay_true), set_nft_owner(env.database, asset, to_principal),
                      <<[event |-> "nft_transfer", sender |-> from_principal,
                         recipient |-> to_principal, value |-> asset]>>)

\* Mutant: the token transfer authenticates from like the STX transfer.
special_transfer_token_authenticated(env, amount, from_principal, to_principal) ==
    IF amount <= 0 THEN Returns(env, clarity_ecode(TransferTokenErrorCodes.NON_POSITIVE_AMOUNT))
    ELSE IF from_principal = to_principal
    THEN Returns(env, clarity_ecode(TransferTokenErrorCodes.SENDER_IS_RECIPIENT))
    ELSE IF Some(from_principal) # env.sender
    THEN Returns(env, clarity_ecode(StxErrorCodes.SENDER_IS_NOT_TX_SENDER))
    ELSE LET from_bal == get_ft_balance(env.database, from_principal) IN
         IF from_bal < amount
         THEN Returns(env, clarity_ecode(TransferTokenErrorCodes.NOT_ENOUGH_BALANCE))
         ELSE Outcome(Some(okay_true),
                      set_ft_balance(set_ft_balance(env.database, from_principal, from_bal - amount),
                                     to_principal, get_ft_balance(env.database, to_principal) + amount),
                      <<[event |-> "ft_transfer", sender |-> from_principal,
                         recipient |-> to_principal, amount |-> amount]>>)

\* Mutant: the recipient is credited, the sender is not debited.
special_transfer_token_credit_only(env, amount, from_principal, to_principal) ==
    IF amount <= 0 THEN Returns(env, clarity_ecode(TransferTokenErrorCodes.NON_POSITIVE_AMOUNT))
    ELSE IF from_principal = to_principal
    THEN Returns(env, clarity_ecode(TransferTokenErrorCodes.SENDER_IS_RECIPIENT))
    ELSE IF get_ft_balance(env.database, from_principal) < amount
    THEN Returns(env, clarity_ecode(TransferTokenErrorCodes.NOT_ENOUGH_BALANCE))
    ELSE Outcome(Some(okay_true),
                 set_ft_balance(env.database, to_principal,
                                get_ft_balance(env.database, to_principal) + amount),
                 <<[event |-> "ft_transfer", sender |-> from_principal,
                    recipient |-> to_principal, amount |-> amount]>>)

\* Mutant: the sender's balance is not compared with the amount.
special_transfer_token_overdraws(env, amount, from_principal, to_principal) ==
    IF amount <= 0 THEN Returns(env, clarity_ecode(TransferTokenErrorCodes.NON_POSITIVE_AMOUNT))
    ELSE IF from_principal = to_principal
    THEN Returns(env, clarity_ecode(TransferTokenErrorCodes.SENDER_IS_RECIPIENT))
    ELSE LET from_bal == get_ft_balance(env.database, from_principal)
             final_from_bal == IF from_bal < amount THEN 0 ELSE from_bal - amount
             to_bal == get_ft_balance(env.database, to_principal)
             final_to_bal == checked_add(to_bal, amount)
         IN  IF ~is_some(final_to_bal) THEN Returns(env, RuntimeError("ArithmeticOverflow"))
             ELSE IF ~add_memory(env, 4) THEN Returns(env, RuntimeError("MemoryBalanceExceeded"))
             ELSE Outcome(Some(okay_true),
                          set_ft_balance(set_ft_balance(env.database, from_principal, final_from_bal),
                                         to_principal, final_to_bal.v),
                          <<[event |-> "ft_transfer", sender |-> from_principal,
                             recipient |-> to_principal, amount |-> amount]>>)

special_transfer_token(env, amount, from_principal, to_principal) ==
    IF amount <= 0 THEN Returns(env, clarity_ecode(TransferTokenErrorCodes.NON_POSITIVE_AMOUNT))
    ELSE IF from_principal = to_principal
    THEN Returns(env, clarity_ecode(TransferTokenErrorCodes.SENDER_IS_RECIPIENT))
    ELSE LET from_bal == get_ft_balance(env.database, from_principal) IN
         IF from_bal < amount
         THEN Returns(env, clarity_ecode(TransferTokenErrorCodes.NOT_ENOUGH_BALANCE))
         ELSE LET final_from_bal == from_bal - amount
                  to_bal == get_ft_balance(env.database, to_principal)
                  final_to_bal == checked_add(to_bal, amount)
              IN  IF ~is_some(final_to_bal) THEN Returns(env, RuntimeError("ArithmeticOverflow"))
                  ELSE IF ~add_memory(env, 4) THEN Returns(env, RuntimeError("MemoryBalanceExceeded"))
                  ELSE Outcome(Some(okay_true),
                               set_ft_balance(set_ft_balance(env.database, from_principal, final_from_bal),
                                              to_principal, final_to_bal.v),
                               <<[event |-> "ft_transfer", sender |-> from_principal,
                                  recipient |-> to_principal, amount |-> amount]>>)

\* Clarity values returned by the reads.
UInt(n) == [tag |-> "uint", v |-> n]
some(v) == [tag |-> "some", v |-> v]
none == [tag |-> "none"]

\* Mutant: the read stores the balance it returns, plus one.
special_get_balance_writes(env, principal) ==
    Outcome(Some(UInt(get_ft_balance(env.database, principal))),
            set_ft_balance(env.database, principal, get_ft_balance(env.database, principal) + 1),
            <<>>)

special_get_balance(env, principal) ==
    Returns(env, Some(UInt(get_ft_balance(env.database, principal))))

\* Mutant: a value without an owner is a runtime error.
special_get_owner_or_error(env, asset) ==
    IF ~admits(asset) THEN Returns(env, RuntimeError("TypeValueError"))
    ELSE LET owner == get_nft_owner(env.database, asset) IN
         IF is_some(owner) THEN Returns(env, Some(some(owner.v)))
         ELSE Returns(env, RuntimeError("NoSuchToken"))

special_get_owner(env, asset) ==
    IF ~admits(asset) THEN Returns(env, RuntimeError("TypeValueError"))
    ELSE LET owner == get_nft_owner(env.database, asset) IN
         IF is_some(owner) THEN Returns(env, Some(some(owner.v)))
         ELSE Returns(env, Some(none))

\* Mutant: the amount to lock is not compared with the transferable balance.
pox_lock_overdraws(db, principal, lock_amount, unlock_burn_height) ==
    IF ~(unlock_burn_height > 0) THEN Outcome(Panic("assert unlock_burn_height > 0"), db, <<>>)
    ELSE IF ~(lock_amount > 0) THEN Outcome(Panic("assert lock_amount > 0"), db, <<>>)
    ELSE LET snapshot == get_stx_balance_snapshot(db, principal) IN
         IF has_locked_tokens(snapshot) THEN Outcome(RuntimeError("PoxAlreadyLocked"), db, <<>>)
         ELSE Outcome(Some("ok"), save(db, lock_tokens(snapshot, lock_amount, unlock_burn_height)), <<>>)

\* Mutant: the locked amount is not taken out of the unlocked amount.
pox_lock_keeps_unlocked(db, principal, lock_amount, unlock_burn_height) ==
    IF ~(unlock_burn_height > 0) THEN Outcome(Panic("assert unlock_burn_height > 0"), db, <<>>)
    ELSE IF ~(lock_amount > 0) THEN Outcome(Panic("assert lock_amount > 0"), db, <<>>)
    ELSE LET snapshot == get_stx_balance_snapshot(db, principal) IN
         IF has_locked_tokens(snapshot) THEN Outcome(RuntimeError("PoxAlreadyLocked"), db, <<>>)
         ELSE IF ~can_transfer(snapshot, lock_amount)
         THEN Outcome(RuntimeError("PoxInsufficientBalance"), db, <<>>)
         ELSE Outcome(Some("ok"),
                      save(db, [snapshot EXCEPT !.balance =
                                    STXBalance(@.amount_unlocked, lock_amount, unlock_burn_height)]),
                      <<>>)

\* Mutant: a balance that has a lock is locked again.
pox_lock_relocks(db, principal, lock_amount, unlock_burn_height) ==
    IF ~(unlock_burn_height > 0) THEN Outcome(Panic("assert unlock_burn_height > 0"), db, <<>>)
    ELSE IF ~(lock_amount > 0) THEN Outcome(Panic("assert lock_amount > 0"), db, <<>>)
    ELSE LET snapshot == get_stx_balance_snapshot(db, principal) IN
         IF ~can_transfer(snapshot, lock_amount)
         THEN Outcome(RuntimeError("PoxInsufficientBalance"), db, <<>>)
         ELSE Outcome(Some("ok"), save(db, lock_tokens(snapshot, lock_amount, unlock_burn_height)), <<>>)

\* StacksChainState::pox_lock: Ok(()) is Some("ok").
pox_lock(db, principal, lock_amount, unlock_burn_height) ==
    IF ~(unlock_burn_height > 0) THEN Outcome(Panic("assert unlock_burn_height > 0"), db, <<>>)
    ELSE IF ~(lock_amount > 0) THEN Outcome(Panic("assert lock_amount > 0"), db, <<>>)
    ELSE LET snapshot == get_stx_balance_snapshot(db, principal) IN
         IF has_locked_tokens(snapshot) THEN Outcome(RuntimeError("PoxAlreadyLocked"), db, <<>>)
         ELSE IF ~can_transfer(snapshot, lock_amount)
         THEN Outcome(RuntimeError("PoxInsufficientBalance"), db, <<>>)
         ELSE Outcome(Some("ok"), save(db, lock_tokens(snapshot, lock_amount, unlock_burn_height)), <<>>)

\* Mutant: the debit is made without the last-line-of-defense test and wraps.
account_debit_unchecked(db, principal, amount) ==
    LET snapshot == get_stx_balance_snapshot(db, principal) IN
    Outcome(Some("ok"),
            save(db, [snapshot EXCEPT !.balance.amount_unlocked = (@ - amount) % (U128_MAX + 1)]),
            <<>>)

\* StacksChainState::account_debit: the panic aborts the process, nothing saved.
account_debit(db, principal, amount) ==
    LET snapshot == get_stx_balance_snapshot(db, principal) IN
    IF ~can_transfer(snapshot, amount) THEN Outcome(Panic("Tried to debit"), db, <<>>)
    ELSE Outcome(Some("ok"), save(db, debit(snapshot, amount).v), <<>>)

\* StacksChainState::account_credit
account_credit(db, principal, amount) ==
    LET credited == credit(get_stx_balance_snapshot(db, principal), amount) IN
    IF ~is_some(credited) THEN Outcome(credited, db, <<>>)
    ELSE Outcome(Some("ok"), save(db, credited.v), <<>>)

\* Mutant: the genesis credit keeps the locked amount and drops its unlock height.
account_genesis_credit_keeps_locked(db, principal, amount) ==
    LET snapshot == get_stx_balance_snapshot_genesis(db, principal) IN
    Outcome(Some("ok"),
            save(db, set_balance(snapshot,
                     STXBalance(amount + snapshot.balance.amount_unlocked,
                                snapshot.balance.amount_locked, 0))),
            <<>>)

\* StacksChainState::account_genesis_credit
account_genesis_credit(db, principal, amount) ==
    LET balance == STXBalance_initial(amount)
        snapshot == get_stx_balance_snapshot_genesis(db, principal)
        existing_balance == snapshot.balance.amount_unlocked
        sum == checked_add(balance.amount_unlocked, existing_balance)
    IN  IF existing_balance > 0 /\ ~is_some(sum)
        THEN Outcome(Panic("Genesis credit balance overflow"), db, <<>>)
        ELSE Outcome(Some("ok"),
                     save(db, set_balance(snapshot,
                              IF existing_balance > 0
                              THEN [balance EXCEPT !.amount_unlocked = sum.v]
                              ELSE balance)),
                     <<>>)

----------------------------------------------------------------------------
(* SpecCalc: find_mature_miner_rewards as a pure function of its arguments *)

InitCalc ==
    /\ headers = (0 :> regtest_genesis)
    /\ payments = <<>>
    /\ poison_reports \in {NoReports} \cup {ReportAt(1, r) : r \in Reporters}
    /\ mainnet \in BOOLEAN
    /\ op = "args"
    /\ tip \in {header_info(1, 0, h) : h \in CalcTipHeights}
    /\ latest_matured_miners \in MaturedLists \cup MalformedLists
    /\ inserted = None
    /\ ret = Pending
    /\ accepted = <<>>
    /\ database = InitDatabase

CallFindMature ==
    /\ op = "args"
    /\ op' = "find_mature_miner_rewards"
    /\ ret' = find_mature_miner_rewards(mainnet, poison_reports, tip, latest_matured_miners)
    /\ UNCHANGED <<headers, payments, poison_reports, mainnet, tip, latest_matured_miners, inserted>>
    /\ UNCHANGED <<accepted, database>>

NextCalc == CallFindMature

SpecCalc == InitCalc /\ [][NextCalc]_vars

----------------------------------------------------------------------------
(* The payments table: text-encoded columns, insert and read-back *)

\* format!("{}", n): the decimal digits of n, most significant first.
RECURSIVE format_decimal(_)
format_decimal(n) ==
    IF n < 10 THEN <<n>> ELSE Append(format_decimal(n \div 10), n % 10)

RECURSIVE digits_value(_)
digits_value(text) ==
    IF text = <<>> THEN 0
    ELSE 10 * digits_value(SubSeq(text, 1, Len(text) - 1)) + text[Len(text)]

\* text.parse::<u128>() and text.parse::<u64>(): None is a parse error.
parse_u128(text) ==
    IF text = <<>> \/ Len(text) > Len(format_decimal(U128_MAX)) THEN None
    ELSE IF digits_value(text) > U128_MAX THEN None ELSE Some(digits_value(text))
parse_u64(text) ==
    IF text = <<>> \/ Len(text) > Len(format_decimal(U64_MAX)) THEN None
    ELSE IF digits_value(text) > U64_MAX THEN None ELSE Some(digits_value(text))

\* u64_to_sql: a u64 goes into an i64 column; None is Err(ParseError).
u64_to_sql(x) == IF x > I64_MAX THEN None ELSE Some(x)

\* The row of the miner, as the first INSERT binds it.
miner_payment_args(block_reward) ==
    [address |-> block_reward.address,
     block_hash |-> block_reward.block_hash,
     consensus_hash |-> block_reward.consensus_hash,
     parent_block_hash |-> block_reward.parent_block_hash,
     parent_consensus_hash |-> block_reward.parent_consensus_hash,
     coinbase |-> format_decimal(block_reward.coinbase),
     tx_fees_anchored |-> format_decimal(block_reward.tx_fees_anchored),
     tx_fees_streamed |-> format_decimal(block_reward.tx_fees_streamed),
     stx_burns |-> format_decimal(block_reward.stx_burns),
     burnchain_commit_burn |-> u64_to_sql(block_reward.burnchain_commit_burn).v,
     burnchain_sortition_burn |-> u64_to_sql(block_reward.burnchain_sortition_burn).v,
     fill |-> format_decimal(block_reward.fill),
     stacks_block_height |-> u64_to_sql(block_reward.stacks_block_height).v,
     miner |-> TRUE,
     vtxindex |-> 0,
     index_block_hash |-> make_index_block_hash(block_reward.consensus_hash, block_reward.block_hash)]

\* Mutant: the supporter's row is bound like the miner's, fees and burns included.
user_payment_args_with_fees(block_reward, user_support) ==
    [miner_payment_args(block_reward) EXCEPT
        !.address = user_support.address,
        !.burnchain_commit_burn = u64_to_sql(user_support.burn_amount).v,
        !.miner = FALSE,
        !.vtxindex = user_support.vtxindex]

\* The row of one burn-supporter, as the INSERT of the loop binds it.
user_payment_args(block_reward, user_support) ==
    [address |-> user_support.address,
     block_hash |-> block_reward.block_hash,
     consensus_hash |-> block_reward.consensus_hash,
     parent_block_hash |-> block_reward.parent_block_hash,
     parent_consensus_hash |-> block_reward.parent_consensus_hash,
     coinbase |-> format_decimal(block_reward.coinbase),
     tx_fees_anchored |-> format_decimal(0),
     tx_fees_streamed |-> format_decimal(0),
     stx_burns |-> format_decimal(0),
     burnchain_commit_burn |-> u64_to_sql(user_support.burn_amount).v,
     burnchain_sortition_burn |-> u64_to_sql(block_reward.burnchain_sortition_burn).v,
     fill |-> format_decimal(block_reward.fill),
     stacks_block_height |-> u64_to_sql(block_reward.stacks_block_height).v,
     miner |-> FALSE,
     vtxindex |-> user_support.vtxindex,
     index_block_hash |-> make_index_block_hash(block_reward.consensus_hash, block_reward.block_hash)]

\* The table after the first n supporters of user_burns were inserted.
RECURSIVE insert_user_payments(_, _, _, _)
insert_user_payments(table, block_reward, user_burns, n) ==
    IF n = 0 THEN Some(table)
    ELSE LET prev == insert_user_payments(table, block_reward, user_burns, n - 1) IN
         IF ~is_some(prev) THEN prev
         ELSE IF ~(user_burns[n].burn_amount < I64_MAX)
              THEN Panic("assert user_support.burn_amount < i64::max_value()")
              ELSE Some(Append(prev.v, user_payment_args(block_reward, user_burns[n])))

\* Some(table') is Ok(()) with the rows added to the table.
insert_miner_payment_schedule(table, block_reward, user_burns) ==
    IF ~(block_reward.burnchain_commit_burn < I64_MAX)
    THEN Panic("assert block_reward.burnchain_commit_burn < i64::max_value()")
    ELSE IF ~(block_reward.burnchain_sortition_burn < I64_MAX)
    THEN Panic("assert block_reward.burnchain_sortition_burn < i64::max_value()")
    ELSE IF ~(block_reward.stacks_block_height < I64_MAX)
    THEN Panic("assert block_reward.stacks_block_height < i64::max_value()")
    ELSE insert_user_payments(Append(table, miner_payment_args(block_reward)),
                              block_reward, user_burns, Len(user_burns))

\* FromRow<MinerPaymentSchedule>: None is Err(ParseError).
from_row(row) ==
    LET coinbase == parse_u128(row.coinbase)
        tx_fees_anchored == parse_u128(row.tx_fees_anchored)
        tx_fees_streamed == parse_u128(row.tx_fees_streamed)
        stx_burns == parse_u128(row.stx_burns)
        fill == parse_u64(row.fill)
    IN  IF ~is_some(coinbase) \/ ~is_some(tx_fees_anchored) \/ ~is_some(tx_fees_streamed)
           \/ ~is_some(stx_burns) \/ ~is_some(fill)
        THEN None
        ELSE Some([address |-> row.address,
                   block_hash |-> row.block_hash,
                   consensus_hash |-> row.consensus_hash,
                   parent_block_hash |-> row.parent_block_hash,
                   parent_consensus_hash |-> row.parent_consensus_hash,
                   coinbase |-> coinbase.v,
                   tx_fees_anchored |-> tx_fees_anchored.v,
                   tx_fees_streamed |-> tx_fees_streamed.v,
                   stx_burns |-> stx_burns.v,
                   burnchain_commit_burn |-> row.burnchain_commit_burn,
                   burnchain_sortition_burn |-> row.burnchain_sortition_burn,
                   fill |-> fill.v,
                   miner |-> row.miner,
                   stacks_block_height |-> row.stacks_block_height,
                   vtxindex |-> row.vtxindex])

\* Mutant: ORDER BY vtxindex DESC.
RECURSIVE order_by_vtxindex_desc(_)
order_by_vtxindex_desc(rows) ==
    IF rows = <<>> THEN <<>>
    ELSE LET least == CHOOSE i \in 1..Len(rows) :
                          \A j \in 1..Len(rows) :
                              \/ rows[i].vtxindex > rows[j].vtxindex
                              \/ (rows[i].vtxindex = rows[j].vtxindex /\ i <= j)
         IN  <<rows[least]>> \o
             order_by_vtxindex_desc(SubSeq(rows, 1, least - 1) \o SubSeq(rows, least + 1, Len(rows)))

\* ORDER BY vtxindex ASC: rows of equal vtxindex keep their insertion order.
RECURSIVE order_by_vtxindex(_)
order_by_vtxindex(rows) ==
    IF rows = <<>> THEN <<>>
    ELSE LET least == CHOOSE i \in 1..Len(rows) :
                          \A j \in 1..Len(rows) :
                              \/ rows[i].vtxindex < rows[j].vtxindex
                              \/ (rows[i].vtxindex = rows[j].vtxindex /\ i <= j)
         IN  <<rows[least]>> \o
             order_by_vtxindex(SubSeq(rows, 1, least - 1) \o SubSeq(rows, least + 1, Len(rows)))

\* query_rows: every selected row through from_row; the first parse error fails the query.
RECURSIVE query_rows(_)
query_rows(rows) ==
    IF rows = <<>> THEN Some(<<>>)
    ELSE LET first == from_row(Head(rows))
             rest == query_rows(Tail(rows))
         IN  IF ~is_some(first) \/ ~is_some(rest) THEN None
             ELSE Some(<<first.v>> \o rest.v)

----------------------------------------------------------------------------
(* The fork index and the scheduled-reward lookups *)

\* The ancestor of tip_info at the given height in tip_info's own fork.
RECURSIVE get_tip_ancestor(_, _, _)
get_tip_ancestor(hdrs, tip_info, block_height) ==
    IF block_height > tip_info.block_height THEN None
    ELSE IF block_height = tip_info.block_height THEN Some(tip_info)
    ELSE get_tip_ancestor(hdrs, hdrs[tip_info.parent_block], block_height)

\* Mutant: the selected rows are returned in insertion order.
get_scheduled_block_rewards_in_fork_at_height_unordered(table, hdrs, tip_info, block_height) ==
    LET ancestor_info == get_tip_ancestor(hdrs, tip_info, block_height) IN
    IF ~is_some(ancestor_info) THEN Some(<<>>)
    ELSE query_rows(SelectSeq(table,
             LAMBDA row : /\ row.block_hash = ancestor_info.v.block_hash
                          /\ row.consensus_hash = ancestor_info.v.consensus_hash))

\* Mutant: a height without an ancestor is an error.
get_scheduled_block_rewards_in_fork_at_height_or_error(table, hdrs, tip_info, block_height) ==
    LET ancestor_info == get_tip_ancestor(hdrs, tip_info, block_height) IN
    IF ~is_some(ancestor_info) THEN None
    ELSE query_rows(order_by_vtxindex(SelectSeq(table,
             LAMBDA row : /\ row.block_hash = ancestor_info.v.block_hash
                          /\ row.consensus_hash = ancestor_info.v.consensus_hash)))

get_scheduled_block_rewards_in_fork_at_height(table, hdrs, tip_info, block_height) ==
    LET ancestor_info == get_tip_ancestor(hdrs, tip_info, block_height) IN
    IF ~is_some(ancestor_info) THEN Some(<<>>)
    ELSE query_rows(order_by_vtxindex(SelectSeq(table,
             LAMBDA row : /\ row.block_hash = ancestor_info.v.block_hash
                          /\ row.consensus_hash = ancestor_info.v.consensus_hash)))

\* Mutant: the lookup does not wait for maturity.
get_scheduled_block_rewards_immature(table, hdrs, tip_info) ==
    IF tip_info.block_height < MINER_REWARD_MATURITY THEN Some(<<>>)
    ELSE get_scheduled_block_rewards_in_fork_at_height(table, hdrs, tip_info,
             tip_info.block_height - 1)

\* Mutant: the lookup is one block late.
get_scheduled_block_rewards_one_late(table, hdrs, tip_info) ==
    IF tip_info.block_height < MINER_REWARD_MATURITY + 1 THEN Some(<<>>)
    ELSE get_scheduled_block_rewards_in_fork_at_height(table, hdrs, tip_info,
             tip_info.block_height - MINER_REWARD_MATURITY - 1)

get_scheduled_block_rewards(table, hdrs, tip_info) ==
    IF tip_info.block_height < MINER_REWARD_MATURITY THEN Some(<<>>)
    ELSE get_scheduled_block_rewards_in_fork_at_height(table, hdrs, tip_info,
             tip_info.block_height - MINER_REWARD_MATURITY)

\* Mutant: of several miner rows the last one is returned.
get_miner_info_last(table, consensus_hash, stacks_block_hash) ==
    LET rows == query_rows(SelectSeq(table,
                    LAMBDA row : /\ row.consensus_hash = consensus_hash
                                 /\ row.block_hash = stacks_block_hash
                                 /\ row.miner))
    IN  IF ~is_some(rows) THEN None
        ELSE IF Len(rows.v) = 0 THEN Some(None)
        ELSE Some(Some(rows.v[Len(rows.v)]))

\* Some(None) is Ok(None), Some(Some(row)) is Ok(Some(row)), None is Err(DBError).
get_miner_info(table, consensus_hash, stacks_block_hash) ==
    LET rows == query_rows(SelectSeq(table,
                    LAMBDA row : /\ row.consensus_hash = consensus_hash
                                 /\ row.block_hash = stacks_block_hash
                                 /\ row.miner))
    IN  IF ~is_some(rows) THEN None
        ELSE IF Len(rows.v) = 0 THEN Some(None)
        ELSE IF Len(rows.v) = 1 THEN Some(Some(rows.v[Len(rows.v)]))
        ELSE Panic("Multiple miners")

----------------------------------------------------------------------------
(* Spec: the chain *)

StagingUserBurnSupport(address, burn_amount, vtxindex) ==
    [consensus_hash |-> FIRST_BURNCHAIN_CONSENSUS_HASH,
     anchored_block_hash |-> FIRST_STACKS_BLOCK_HASH,
     address |-> address,
     burn_amount |-> burn_amount,
     vtxindex |-> vtxindex]

\* The schedules a block may be accepted with: (block_reward, user_burns).
\* The second lists its supporters out of vtxindex order.
BlockSchedules ==
    { [block_reward |-> make_dummy_miner_payment_schedule("SP_MINER", 500, 10, 10, 2, 20),
       user_burns |-> <<>>],
      [block_reward |-> [make_dummy_miner_payment_schedule("SP_MINER2", 7, 10, 4, 2, 20)
                             EXCEPT !.stx_burns = 3, !.stacks_block_height = 1],
       user_burns |-> <<StagingUserBurnSupport("SP_USER1", 6, 2),
                        StagingUserBurnSupport("SP_USER2", 2, 1)>>] }

\* Heights for which a poison report may be filed.
ReportHeights == {1}

Init ==
    /\ headers = (0 :> regtest_genesis)
    /\ payments = <<>>
    /\ poison_reports = NoReports
    /\ mainnet = FALSE
    /\ op = "init"
    /\ tip = regtest_genesis
    /\ latest_matured_miners = <<>>
    /\ inserted = None
    /\ ret = Pending
    /\ accepted = <<>>
    /\ database = InitDatabase

\* A block is accepted on top of any accepted block with one of the given
\* schedules: the new header is stored and its payments are scheduled.
advance_tip(schedules) ==
    /\ Cardinality(DOMAIN headers) <= MaxBlocks
    /\ \E parent \in DOMAIN headers, schedule \in schedules :
         LET id == Cardinality(DOMAIN headers)
             new_tip == header_info(id, parent, headers[parent].block_height + 1)
             block_reward ==
                 [schedule.block_reward EXCEPT
                     !.parent_consensus_hash = headers[parent].consensus_hash,
                     !.parent_block_hash = headers[parent].block_hash,
                     !.block_hash = new_tip.block_hash,
                     !.consensus_hash = new_tip.consensus_hash]
             user_burns ==
                 [i \in 1..Len(schedule.user_burns) |->
                     [schedule.user_burns[i] EXCEPT
                         !.anchored_block_hash = new_tip.block_hash,
                         !.consensus_hash = new_tip.consensus_hash]]
             stored == insert_miner_payment_schedule(payments, block_reward, user_burns)
         IN  /\ is_some(stored)
             /\ headers' = headers @@ (id :> new_tip)
             /\ payments' = stored.v
             /\ op' = "advance_tip"
             /\ tip' = new_tip
             /\ inserted' = Some([block_reward |-> block_reward, user_burns |-> user_burns])
             /\ latest_matured_miners' = <<>>
             /\ ret' = Some(new_tip)
             /\ accepted' = Append(accepted, [block_reward |-> block_reward, user_burns |-> user_burns])
    /\ UNCHANGED <<poison_reports, mainnet, database>>

AdvanceTip == advance_tip(BlockSchedules)

\* The "dummy reward" of the tests: coinbase 0 and commit burn 0, accepted with
\* no burn-supporters.
tip_reward ==
    [block_reward |-> make_dummy_miner_payment_schedule("SP_ZERO", 0, 0, 0, 0, 0),
     user_burns |-> <<>>]

\* A block is accepted with any schedule the tests accept blocks with.
AdvanceTipDummy == advance_tip(BlockSchedules \cup {tip_reward})

\* A poison-microblock report is recorded in contract state for a height.
ReportPoison ==
    /\ \E height \in ReportHeights :
         /\ ~is_some(poison_reports[height])
         /\ poison_reports' = [poison_reports EXCEPT
                                  ![height] = Some([reporter |-> "SP_REPORTER", seq |-> 1])]
    /\ UNCHANGED <<headers, payments, mainnet, op, tip, latest_matured_miners, inserted, ret>>
    /\ UNCHANGED <<accepted, database>>

\* Block processing on top of a tip: the matured schedule is looked up and resolved.
ProcessMatured ==
    /\ \E id \in DOMAIN headers :
         LET scheduled == get_scheduled_block_rewards(payments, headers, headers[id]) IN
         /\ tip' = headers[id]
         /\ op' = "find_mature_miner_rewards"
         /\ inserted' = None
         /\ IF is_some(scheduled)
            THEN /\ latest_matured_miners' = scheduled.v
                 /\ ret' = find_mature_miner_rewards(mainnet, poison_reports, headers[id],
                                                     scheduled.v)
            ELSE /\ latest_matured_miners' = <<>>
                 /\ ret' = [tag |-> "Err", msg |-> "ParseError"]
    /\ UNCHANGED <<headers, payments, poison_reports, mainnet, accepted, database>>

Next == AdvanceTip \/ ReportPoison \/ ProcessMatured

Spec == Init /\ [][Next]_vars

\* SpecDummy: the chain when blocks may also be accepted with the dummy reward.
NextDummy == AdvanceTipDummy \/ ProcessMatured

SpecDummy == Init /\ [][NextDummy]_vars

\* SpecMiners: blocks are accepted, a block's schedule may be inserted again,
\* and the miner row of a block is looked up.

\* The stored miner rows of a block.
miner_rows(table, info) ==
    SelectSeq(table, LAMBDA row : /\ row.consensus_hash = info.consensus_hash
                                  /\ row.block_hash = info.block_hash
                                  /\ row.miner)

\* insert_miner_payment_schedule is called again for the block accepted last.
Reschedule ==
    /\ \E id \in {Len(accepted)} \ {0} :
         LET stored == insert_miner_payment_schedule(payments, accepted[id].block_reward,
                                                     accepted[id].user_burns)
         IN  /\ Len(miner_rows(payments, headers[id])) < MaxMinerRows
             /\ is_some(stored)
             /\ payments' = stored.v
             /\ op' = "insert_miner_payment_schedule"
             /\ tip' = headers[id]
             /\ inserted' = Some(accepted[id])
             /\ ret' = Some(headers[id])
    /\ UNCHANGED <<headers, poison_reports, mainnet, latest_matured_miners, accepted, database>>

\* The miner row of an accepted block, or of genesis, is looked up.
GetMinerInfo ==
    /\ \E id \in DOMAIN headers :
         /\ tip' = headers[id]
         /\ op' = "get_miner_info"
         /\ inserted' = None
         /\ ret' = get_miner_info(payments, headers[id].consensus_hash, headers[id].block_hash)
    /\ UNCHANGED <<headers, payments, poison_reports, mainnet, latest_matured_miners>>
    /\ UNCHANGED <<accepted, database>>

\* A block is accepted while fewer than MaxMinerBlocks are.
AdvanceTipMiners == Len(accepted) < MaxMinerBlocks /\ AdvanceTip

NextMiners == AdvanceTipMiners \/ Reschedule \/ GetMinerInfo

SpecMiners == Init /\ [][NextMiners]_vars

----------------------------------------------------------------------------
(* SpecAssets and SpecStx: contract calls against the Clarity database *)

Senders == {None, Some("SP_ALICE"), Some("SP_BOB")}
\* The Environment of one contract call, the cost tracker not near its limit.
Environment(sender) == [database |-> database, sender |-> sender, memory |-> 4]

chain_vars == <<headers, payments, poison_reports, mainnet, tip, latest_matured_miners, inserted, accepted>>

\* The call ran: its result and events are returned, its writes are kept.
Ran(name, outcome) ==
    /\ op' = name
    /\ ret' = [result |-> outcome.result, events |-> outcome.events]
    /\ database' = outcome.database
    /\ UNCHANGED chain_vars

StxTransfer ==
    \E sender \in Senders, amount \in 0..MaxAmount, from \in Principals, to \in Principals :
        Ran("stx-transfer", special_stx_transfer(Environment(sender), amount, from, to))

StxBurn ==
    \E sender \in Senders, amount \in 0..MaxAmount, from \in Principals :
        Ran("stx-burn", special_stx_burn(Environment(sender), amount, from))

FtMint ==
    \E sender \in Senders, amount \in 0..MaxAmount, to \in Principals :
        Ran("ft-mint", special_mint_token(Environment(sender), amount, to))

FtTransfer ==
    \E sender \in Senders, amount \in 0..MaxAmount, from \in Principals, to \in Principals :
        Ran("ft-transfer", special_transfer_token(Environment(sender), amount, from, to))

NftMint ==
    \E sender \in Senders, asset \in AssetValues, to \in Principals :
        Ran("nft-mint", special_mint_asset(Environment(sender), asset, to))

NftTransfer ==
    \E sender \in Senders, asset \in AssetValues, from \in Principals, to \in Principals :
        Ran("nft-transfer", special_transfer_asset(Environment(sender), asset, from, to))

PoxLock ==
    \E principal \in Principals, lock_amount \in 0..MaxAmount, unlock_burn_height \in 0..MaxBurnHeight :
        Ran("pox_lock", pox_lock(database, principal, lock_amount, unlock_burn_height))

\* The burnchain advances by one block.
AdvanceBurnBlock ==
    /\ database.burn_block_height < MaxBurnHeight
    /\ database' = [database EXCEPT !.burn_block_height = @ + 1]
    /\ op' = "burn_block"
    /\ ret' = Pending
    /\ UNCHANGED chain_vars

\* Block processing debits a fee or a payment from an account.
AccountDebit ==
    \E principal \in Principals, amount \in 0..MaxAmount :
        Ran("account_debit", account_debit(database, principal, amount))

\* Block processing credits an account, within the bound on all STX.
AccountCredit ==
    \E principal \in Principals, amount \in 0..MaxAmount :
        /\ TotalStx(database) + amount <= MaxStx
        /\ Ran("account_credit", account_credit(database, principal, amount))

AccountGenesisCredit ==
    \E principal \in Principals, amount \in 0..MaxAmount :
        /\ TotalStx(database) + amount <= MaxStx
        /\ Ran("account_genesis_credit", account_genesis_credit(database, principal, amount))

\* SpecAssets: the three asset classes side by side, no balance locked.
NextAssets ==
    StxTransfer \/ StxBurn \/ FtMint \/ FtTransfer \/ NftMint \/ NftTransfer

SpecAssets == Init /\ [][NextAssets]_vars

\* SpecStx: the STX balances alone, with PoX locks that mature as the
\* burnchain advances.
NextStx == StxTransfer \/ StxBurn \/ PoxLock \/ AdvanceBurnBlock

SpecStx == Init /\ [][NextStx]_vars

FtGetBalance ==
    \E sender \in Senders, owner \in Principals :
        Ran("ft-get-balance", special_get_balance(Environment(sender), owner))

NftGetOwner ==
    \E sender \in Senders, asset \in AssetValues :
        Ran("nft-get-owner", special_get_owner(Environment(sender), asset))

\* SpecTokens: the fungible token and the non-fungible asset alone.
NextTokens == FtMint \/ FtTransfer \/ NftMint \/ NftTransfer

SpecTokens == Init /\ [][NextTokens]_vars

\* SpecReads: the token operations and the reads of balances and owners.
NextReads == FtMint \/ FtTransfer \/ NftMint \/ NftTransfer \/ FtGetBalance \/ NftGetOwner

SpecReads == Init /\ [][NextReads]_vars

\* SpecScope: token calls inside the enclosing scope of a transaction, with
\* the cost tracker anywhere between exhausted and not near its limit.

\* Units of memory the cost tracker may have left when a call starts.
MemoryLeft == {0, 1, 2, 4}
LimitedEnvironment(sender, memory) == [Environment(sender) EXCEPT !.memory = memory]

\* The enclosing scope: a call that ends in a runtime error or aborts takes
\* the whole state transition with it, and its writes are rolled back.
rolled_back(env, outcome) ==
    IF is_some(outcome.result) THEN outcome
    ELSE Outcome(outcome.result, env.database, <<>>)

FtMintInScope ==
    \E sender \in Senders, amount \in 0..MaxAmount, to \in Principals, memory \in MemoryLeft :
        LET env == LimitedEnvironment(sender, memory) IN
        Ran("ft-mint", rolled_back(env, special_mint_token(env, amount, to)))

FtTransferInScope ==
    \E sender \in Senders, amount \in 0..MaxAmount, from \in Principals, to \in Principals,
       memory \in MemoryLeft :
        LET env == LimitedEnvironment(sender, memory) IN
        Ran("ft-transfer", rolled_back(env, special_transfer_token(env, amount, from, to)))

NextScope == FtMintInScope \/ FtTransferInScope \/ FtGetBalance

SpecScope == Init /\ [][NextScope]_vars

\* SpecCap: a fungible asset whose declared maximum is the largest u128, with
\* amounts that take the supply and the balances up to it.

InitCap ==
    /\ headers = (0 :> regtest_genesis)
    /\ payments = <<>>
    /\ poison_reports = NoReports
    /\ mainnet = FALSE
    /\ op = "init"
    /\ tip = regtest_genesis
    /\ latest_matured_miners = <<>>
    /\ inserted = None
    /\ ret = Pending
    /\ accepted = <<>>
    /\ database = [InitDatabase EXCEPT !.ft_total_supply = U128_MAX]

\* Small amounts, and amounts that reach the maximum in one step.
CapAmounts == (0..MaxAmount) \cup ((U128_MAX - MaxSupply)..U128_MAX)

\* The supply and every balance are within MaxSupply of 0 or of the maximum.
NearEdge(n) == n <= MaxSupply \/ n >= U128_MAX - MaxSupply
WithinEdges(db) == NearEdge(db.ft_supply) /\ \A p \in Principals : NearEdge(db.ft_balance[p])

FtMintCap ==
    \E sender \in Senders, amount \in CapAmounts, to \in Principals :
        LET done == special_mint_token(Environment(sender), amount, to) IN
        WithinEdges(done.database) /\ Ran("ft-mint", done)

FtTransferCap ==
    \E sender \in Senders, amount \in CapAmounts, from \in Principals, to \in Principals :
        LET done == special_transfer_token(Environment(sender), amount, from, to) IN
        WithinEdges(done.database) /\ Ran("ft-transfer", done)

NextCap == FtMintCap \/ FtTransferCap

SpecCap == InitCap /\ [][NextCap]_vars

\* SpecAccounts: the STX balances under every operation that writes them.
NextAccounts ==
    \/ StxTransfer \/ StxBurn \/ PoxLock \/ AdvanceBurnBlock
    \/ AccountDebit \/ AccountCredit \/ AccountGenesisCredit

SpecAccounts == Init /\ [][NextAccounts]_vars

----------------------------------------------------------------------------
(* Vocabulary of the properties *)

Called == op = "find_mature_miner_rewards"
\* find_mature_miner_rewards returned Ok(Some(..)): the schedule was resolved.
Resolved == Called /\ is_some(ret) /\ is_some(ret.v)
Out == ret.v.v
MinerRow == latest_matured_miners[1]
UserRows == Tail(latest_matured_miners)
AllRewards == <<Out.miner_reward>> \o Out.user_rewards
RewardHeight == tip.block_height - MINER_REWARD_MATURITY
\* The poison report filed for the maturing height, if any.
ReportFiled == RewardHeight \in DOMAIN poison_reports /\ is_some(poison_reports[RewardHeight])
Reporter == poison_reports[RewardHeight].v.reporter

RECURSIVE SumCoinbase(_)
SumCoinbase(rewards) ==
    IF rewards = <<>> THEN 0 ELSE Head(rewards).coinbase + SumCoinbase(Tail(rewards))

RECURSIVE SumCommit(_)
SumCommit(rows) ==
    IF rows = <<>> THEN 0 ELSE Head(rows).burnchain_commit_burn + SumCommit(Tail(rows))

TotalCommit == SumCommit(latest_matured_miners)
\* floor(C * commit / total), the share the split is specified to give.
ProportionalShare(row) == (MinerRow.coinbase * row.burnchain_commit_burn) \div TotalCommit
\* The share the code computes for a row when no report is filed.
UnpoisonedShare(row) == calculate_miner_reward(mainnet, row, MinerRow, UserRows, None).v.coinbase

----------------------------------------------------------------------------
(* C1: with no poison report, the coinbase amounts of the miner reward and *)
(* of all supporter rewards returned by find_mature_miner_rewards sum to   *)
(* at most the declared coinbase C.                                        *)
C1_Conservation ==
    (Resolved /\ ~ReportFiled) => SumCoinbase(AllRewards) <= MinerRow.coinbase

(* C2: with no poison report, every participant (the miner and every       *)
(* supporter row) receives coinbase = floor(C * commit(p) / total), total   *)
(* being the sum of the commit-burns of the miner and of every supporter    *)
(* row; a lone miner with a positive commit receives all of C.              *)
C2_ProportionalShares ==
    (Resolved /\ ~ReportFiled) =>
        /\ Out.miner_reward.coinbase = ProportionalShare(MinerRow)
        /\ Len(Out.user_rewards) = Len(UserRows)
        /\ \A i \in 1..Len(UserRows) :
               Out.user_rewards[i].coinbase = ProportionalShare(UserRows[i])
        /\ (UserRows = <<>> /\ MinerRow.burnchain_commit_burn > 0) =>
               Out.miner_reward.coinbase = MinerRow.coinbase

(* C3: when a poison report naming reporter R exists for the maturing      *)
(* height, the miner slot of the output is addressed to R and carries      *)
(* coinbase = floor(S * POISON_MICROBLOCK_COMMISSION_FRACTION / 100), S    *)
(* being the miner's share floor(C * m / total) computed without a report. *)
C3_ReporterCommission ==
    (Resolved /\ ReportFiled) =>
        /\ Out.miner_reward.address = Reporter
        /\ Out.miner_reward.coinbase =
               (ProportionalShare(MinerRow) * POISON_MICROBLOCK_COMMISSION_FRACTION) \div 100

C3_Witness ==
    /\ Resolved /\ ReportFiled
    /\ Reporter # MinerRow.address
    /\ Out.miner_reward.coinbase > 0
    /\ Out.miner_reward.coinbase < ProportionalShare(MinerRow)

(* C4 as stated: when a poison report exists, every supporter reward is    *)
(* addressed to the burn address, and no reward of the output is addressed *)
(* to the miner or to a burn-supporter.                                    *)
C4_OnlyReporterPaid_Original ==
    (Resolved /\ ReportFiled) =>
        /\ \A i \in 1..Len(Out.user_rewards) :
               Out.user_rewards[i].address = burn_address(mainnet)
        /\ \A i \in 1..Len(AllRewards) :
               /\ AllRewards[i].address # MinerRow.address
               /\ \A j \in 1..Len(UserRows) : AllRewards[i].address # UserRows[j].address

(* C4 amended: when a poison report naming R exists, every reward of the   *)
(* output is addressed to R or to the burn address: the miner slot to R,   *)
(* every supporter row whose address differs from the miner's to the burn  *)
(* address, and a supporter row carrying the miner's address to R.  The    *)
(* miner or a supporter is paid only if its address is R's.                *)
C4_OnlyReporterPaid ==
    (Resolved /\ ReportFiled) =>
        /\ Out.miner_reward.address = Reporter
        /\ Len(Out.user_rewards) = Len(UserRows)
        /\ \A i \in 1..Len(UserRows) :
               Out.user_rewards[i].address =
                   IF UserRows[i].address = MinerRow.address
                   THEN Reporter ELSE burn_address(mainnet)
        /\ \A i \in 1..Len(AllRewards) :
               (AllRewards[i].address = MinerRow.address
                   \/ \E j \in 1..Len(UserRows) : AllRewards[i].address = UserRows[j].address)
               => AllRewards[i].address = Reporter

C4_Witness ==
    /\ Resolved /\ ReportFiled
    /\ Len(UserRows) = 2
    /\ UserRows[1].address # MinerRow.address
    /\ UserRows[2].address # MinerRow.address
    /\ Reporter = "SP_REPORTER"
    /\ Out.user_rewards[1].address = burn_address(mainnet)
    /\ Out.user_rewards[1].coinbase > 0

(* C5 as stated: when a poison report exists, the remainder of the miner's *)
(* share (S minus the commission) is carried by a reward addressed to the   *)
(* burn address, so that the reporter's payout plus the burn-address        *)
(* payouts equal the sum of the unpoisoned shares.                          *)
C5_RemainderBurned_Original ==
    (Resolved /\ ReportFiled) =>
        SumCoinbase(SelectSeq(AllRewards,
                LAMBDA r : r.address = Reporter \/ r.address = burn_address(mainnet)))
            = UnpoisonedShare(MinerRow)
                + SumCoinbase([i \in 1..Len(UserRows) |->
                                  [coinbase |-> UnpoisonedShare(UserRows[i])]])

(* C5 amended: when a poison report exists, the remainder of the miner's   *)
(* share is carried by no reward at all: the output holds exactly one      *)
(* reward per schedule row, the miner slot (and the slot of any supporter  *)
(* row carrying the miner's address) holds only the commission on its      *)
(* unpoisoned share, and every other supporter slot holds its unpoisoned   *)
(* share unchanged.  The payouts therefore fall short of the unpoisoned    *)
(* shares by the remainders, which are never paid.                         *)
C5_RemainderNotPaid ==
    (Resolved /\ ReportFiled) =>
        /\ Len(Out.user_rewards) = Len(UserRows)
        /\ Out.miner_reward.coinbase
               = poison_microblock_commission(UnpoisonedShare(MinerRow))
        /\ \A i \in 1..Len(UserRows) :
               Out.user_rewards[i].coinbase =
                   IF UserRows[i].address = MinerRow.address
                   THEN (UnpoisonedShare(UserRows[i]) * POISON_MICROBLOCK_COMMISSION_FRACTION) \div 100
                   ELSE UnpoisonedShare(UserRows[i])
        /\ SumCoinbase(AllRewards)
               <= UnpoisonedShare(MinerRow)
                    + SumCoinbase([i \in 1..Len(UserRows) |->
                                      [coinbase |-> UnpoisonedShare(UserRows[i])]])
                    - (UnpoisonedShare(MinerRow) - Out.miner_reward.coinbase)

C5_Witness ==
    /\ Resolved /\ ReportFiled
    /\ Len(UserRows) >= 1
    /\ UnpoisonedShare(MinerRow) - Out.miner_reward.coinbase > 0
    /\ \A i \in 1..Len(AllRewards) :
           AllRewards[i].coinbase # UnpoisonedShare(MinerRow) - Out.miner_reward.coinbase

----------------------------------------------------------------------------
(* Vocabulary of the chain properties *)

\* The accepted block a MinerRewardInfo names.
ResolvedBlocks ==
    { id \in DOMAIN headers :
        /\ headers[id].block_hash = Out.reward_info.from_stacks_block_hash
        /\ headers[id].consensus_hash = Out.reward_info.from_block_consensus_hash }

\* id is on the fork that ends in tip_info.
RECURSIVE OnForkOf(_, _)
OnForkOf(id, tip_info) ==
    \/ headers[id] = tip_info
    \/ /\ tip_info.block_height > 0
       /\ OnForkOf(id, headers[tip_info.parent_block])

\* The stored rows of the block the last advance_tip accepted, read back.
InsertedRows ==
    SelectSeq(payments, LAMBDA row :
        row.index_block_hash = make_index_block_hash(tip.consensus_hash, tip.block_hash))

----------------------------------------------------------------------------
(* C6 as stated: the schedule of the block at height R is resolved only at *)
(* a tip with block_height > R + MINER_REWARD_MATURITY.                    *)
C6_StrictlyAfterMaturity_Original ==
    Resolved =>
        \A id \in ResolvedBlocks :
            tip.block_height > headers[id].block_height + MINER_REWARD_MATURITY

(* C6 amended: given the list get_scheduled_block_rewards returns for the  *)
(* same tip, find_mature_miner_rewards resolves the schedule of the block  *)
(* at height R only at a tip of that block's fork whose block_height is    *)
(* exactly R + MINER_REWARD_MATURITY, and only when that tip's             *)
(* block_height > MINER_REWARD_MATURITY (so R >= 1); never at a tip whose  *)
(* height is below R + MINER_REWARD_MATURITY.                              *)
C6_ResolvedAtMaturity ==
    Resolved =>
        /\ tip.block_height > MINER_REWARD_MATURITY
        /\ ResolvedBlocks # {}
        /\ \A id \in ResolvedBlocks :
            /\ tip.block_height = headers[id].block_height + MINER_REWARD_MATURITY
            /\ OnForkOf(id, tip)

C6_Witness ==
    /\ Resolved
    /\ tip.block_height = MINER_REWARD_MATURITY + 1
    /\ \E id \in ResolvedBlocks : headers[id].block_height = 1
    /\ \E other \in DOMAIN headers :
           headers[other].block_height = 1 /\ other \notin ResolvedBlocks

(* C7: for every tip whose block height is at most MINER_REWARD_MATURITY,  *)
(* find_mature_miner_rewards returns Ok(None), whatever schedule list it   *)
(* is given: no error, no panic, no reward record.                         *)
C7_NotMatureIsNone ==
    (Called /\ tip.block_height <= MINER_REWARD_MATURITY) => ret = Some(None)

C7_Witness ==
    /\ Called
    /\ tip.block_height = MINER_REWARD_MATURITY
    /\ Len(latest_matured_miners) = 3
    /\ is_some(poison_reports[1])
    /\ ret = Some(None)

(* C8: for one matured schedule (miner row first, then n supporter rows),  *)
(* find_mature_miner_rewards returns one miner reward, exactly n supporter *)
(* rewards in the order of the supporter rows, and a MinerRewardInfo whose *)
(* block hash and consensus hash are those of the miner row.               *)
C8_ResolutionShape ==
    Resolved =>
        /\ DOMAIN Out = {"miner_reward", "user_rewards", "reward_info"}
        /\ Len(Out.user_rewards) = Len(UserRows)
        /\ ~ReportFiled =>
               /\ Out.miner_reward.address = MinerRow.address
               /\ \A i \in 1..Len(UserRows) :
                      Out.user_rewards[i].address = UserRows[i].address
        /\ Out.reward_info.from_stacks_block_hash = MinerRow.block_hash
        /\ Out.reward_info.from_block_consensus_hash = MinerRow.consensus_hash

C8_Witness ==
    /\ Resolved /\ ~ReportFiled
    /\ Len(UserRows) = 2
    /\ UserRows[1].address # UserRows[2].address
    /\ MinerRow.block_hash # tip.block_hash
    /\ MinerRow.block_hash # MinerRow.parent_block_hash

(* C9: every MinerReward produced has tx_fees_anchored,                    *)
(* tx_fees_streamed_produced and tx_fees_streamed_confirmed equal to 0,    *)
(* whatever fees the schedule rows declare, so total() is the coinbase.    *)
C9_FeesAreZero ==
    Resolved =>
        \A i \in 1..Len(AllRewards) :
            /\ AllRewards[i].tx_fees_anchored = 0
            /\ AllRewards[i].tx_fees_streamed_produced = 0
            /\ AllRewards[i].tx_fees_streamed_confirmed = 0
            /\ total(AllRewards[i]) = AllRewards[i].coinbase

C9_Witness ==
    /\ Resolved
    /\ Len(UserRows) >= 1
    /\ MinerRow.tx_fees_anchored > 0
    /\ MinerRow.tx_fees_streamed > 0
    /\ UserRows[1].tx_fees_anchored > 0
    /\ Out.miner_reward.coinbase > 0
    /\ Out.user_rewards[1].coinbase > 0

(* C10: insert_miner_payment_schedule for an accepted block with n         *)
(* supporters adds exactly n+1 rows for that block and changes no row      *)
(* already stored: first the miner's (miner = true, vtxindex = 0, its      *)
(* address, commit and fees), then one per supporter in list order         *)
(* (miner = false, the supporter's address, vtxindex and burn amount, zero *)
(* fees and zero stx_burns); all n+1 rows carry the block's hashes and the *)
(* height and coinbase the block's reward declares.                        *)
C10_ScheduledRows ==
    [][(op' = "advance_tip" /\ headers' # headers) =>
        LET block_reward == inserted'.v.block_reward
            user_burns == inserted'.v.user_burns
            n == Len(user_burns)
            added == SubSeq(payments', Len(payments) + 1, Len(payments'))
            rows == query_rows(added)
        IN  /\ Len(payments') = Len(payments) + n + 1
            /\ SubSeq(payments', 1, Len(payments)) = payments
            /\ is_some(rows)
            /\ rows.v[1] = [block_reward EXCEPT !.miner = TRUE, !.vtxindex = 0]
            /\ \A i \in 1..n :
                   rows.v[i + 1] =
                       [block_reward EXCEPT
                           !.address = user_burns[i].address,
                           !.miner = FALSE,
                           !.vtxindex = user_burns[i].vtxindex,
                           !.burnchain_commit_burn = user_burns[i].burn_amount,
                           !.tx_fees_anchored = 0,
                           !.tx_fees_streamed = 0,
                           !.stx_burns = 0]
            /\ \A i \in 1..(n + 1) :
                   /\ rows.v[i].block_hash = tip'.block_hash
                   /\ rows.v[i].consensus_hash = tip'.consensus_hash
                   /\ rows.v[i].stacks_block_height = block_reward.stacks_block_height
                   /\ rows.v[i].coinbase = block_reward.coinbase
                   /\ added[i].index_block_hash =
                          make_index_block_hash(tip'.consensus_hash, tip'.block_hash)
    ]_vars

C10_Witness ==
    /\ op = "advance_tip"
    /\ Len(inserted.v.user_burns) = 2
    /\ Len(InsertedRows) = 3
    /\ Len(payments) > 3
    /\ inserted.v.block_reward.coinbase > 0
    /\ inserted.v.block_reward.tx_fees_anchored > 0
    /\ inserted.v.block_reward.stx_burns > 0
    /\ tip.block_height > 1

----------------------------------------------------------------------------
(* Vocabulary of the store/load properties *)

\* The rows block id was accepted with: the miner's, then its supporters'.
ScheduledRows(id) ==
    LET block_reward == accepted[id].block_reward
        user_burns == accepted[id].user_burns
    IN  <<[block_reward EXCEPT !.miner = TRUE, !.vtxindex = 0]>> \o
        [i \in 1..Len(user_burns) |->
            [block_reward EXCEPT
                !.address = user_burns[i].address,
                !.miner = FALSE,
                !.vtxindex = user_burns[i].vtxindex,
                !.burnchain_commit_burn = user_burns[i].burn_amount,
                !.tx_fees_anchored = 0,
                !.tx_fees_streamed = 0,
                !.stx_burns = 0]]

\* rows is a rearrangement of expected.
IsPermutation(rows, expected) ==
    /\ Len(rows) = Len(expected)
    /\ \E f \in [1..Len(rows) -> 1..Len(rows)] :
           /\ \A i, j \in 1..Len(rows) : f[i] = f[j] => i = j
           /\ \A i \in 1..Len(rows) : rows[i] = expected[f[i]]

Lookup(tip_id, height) ==
    get_scheduled_block_rewards_in_fork_at_height(payments, headers, headers[tip_id], height)

(* C11: for every tip of a fork and every accepted block of that fork,     *)
(* get_scheduled_block_rewards_in_fork_at_height(tip, h) at the block's    *)
(* height h returns exactly the rows that block was accepted with, field   *)
(* for field after the text columns are parsed back: the miner row first,  *)
(* then the supporter rows in ascending vtxindex, and no row of any other  *)
(* block.                                                                  *)
C11_StoreLoadRoundTrip ==
    \A tip_id \in DOMAIN headers : \A id \in DOMAIN headers \ {0} :
        OnForkOf(id, headers[tip_id]) =>
            LET rows == Lookup(tip_id, headers[id].block_height) IN
            /\ is_some(rows)
            /\ IsPermutation(rows.v, ScheduledRows(id))
            /\ rows.v[1] = ScheduledRows(id)[1]
            /\ \A i \in 2..(Len(rows.v) - 1) : rows.v[i].vtxindex < rows.v[i + 1].vtxindex

C11_Witness ==
    \E tip_id \in DOMAIN headers : \E id, other \in DOMAIN headers \ {0} :
        /\ id # tip_id
        /\ OnForkOf(id, headers[tip_id])
        /\ ~OnForkOf(other, headers[tip_id])
        /\ headers[other].block_height = headers[id].block_height
        /\ Len(accepted[id].user_burns) = 2
        /\ accepted[id].user_burns[1].vtxindex > accepted[id].user_burns[2].vtxindex
        /\ Len(Lookup(tip_id, headers[id].block_height).v) = 3

(* C12: a lookup at a height above the tip (no ancestor in the fork) or at *)
(* height 0 (the genesis block, which has no payment rows) returns the     *)
(* empty list and no error; get_scheduled_block_rewards returns the empty  *)
(* list for every tip whose block height is below MINER_REWARD_MATURITY.   *)
C12_EmptyLookups ==
    \A tip_id \in DOMAIN headers :
        /\ \A height \in (headers[tip_id].block_height + 1)..(MaxHeight + 1) :
               Lookup(tip_id, height) = Some(<<>>)
        /\ Lookup(tip_id, 0) = Some(<<>>)
        /\ headers[tip_id].block_height < MINER_REWARD_MATURITY =>
               get_scheduled_block_rewards(payments, headers, headers[tip_id]) = Some(<<>>)

C12_Witness ==
    /\ op = "find_mature_miner_rewards"
    /\ tip.block_height = 1
    /\ Len(InsertedRows) = 3
    /\ latest_matured_miners = <<>>
    /\ \E tip_id \in DOMAIN headers : headers[tip_id].block_height = MINER_REWARD_MATURITY

----------------------------------------------------------------------------
(* Vocabulary of the asset properties *)

\* The balance a principal can transfer: its unlocked amount, and its locked
\* amount once the burnchain has reached the unlock height.
Matured(db, p) ==
    db.stx[p].amount_locked > 0 /\ db.stx[p].unlock_height <= db.burn_block_height
Unlocked(db, p) ==
    db.stx[p].amount_unlocked + (IF Matured(db, p) THEN db.stx[p].amount_locked ELSE 0)
Locked(db, p) == IF Matured(db, p) THEN 0 ELSE db.stx[p].amount_locked

\* What a call returns is stated either of the step that makes the call
\* (Ran) or, in every reachable state, of the outcome the operation computes
\* from the database of that state and the arguments of the call.
Succeeded == ret.result = Some(okay_true)
Failed(code) == ret.result = Some(err_uint(code))
\* The event of the successful call that ran last.
Event == ret.events[1]

(* C13: a successful stx-transfer(amount, from, to) decreases from's       *)
(* transferable balance by exactly amount and increases to's by exactly    *)
(* amount; the sum of all principals' STX (unlocked plus locked) is        *)
(* unchanged, no locked amount and no third principal's balance changes,   *)
(* and a stx-transfer that does not succeed changes no balance.            *)
C13_TransferMovesAmount ==
    [][op' = "stx-transfer" =>
        IF ret'.result = Some(okay_true)
        THEN LET from == ret'.events[1].sender
                 to == ret'.events[1].recipient
                 amount == ret'.events[1].amount
             IN  /\ Unlocked(database', from) = Unlocked(database, from) - amount
                 /\ Unlocked(database', to) = Unlocked(database, to) + amount
                 /\ \A p \in Principals : Locked(database', p) = Locked(database, p)
                 /\ TotalStx(database') = TotalStx(database)
                 /\ \A p \in Principals \ {from, to} : database'.stx[p] = database.stx[p]
        ELSE database' = database
    ]_vars

C13_Witness ==
    /\ op = "stx-transfer" /\ Succeeded
    /\ Event.amount = 1
    /\ Locked(database, Event.sender) > 0
    /\ Unlocked(database, Event.sender) = 0
    /\ Unlocked(database, Event.recipient) = Event.amount
    /\ database.burn_block_height > 0

(* C14 as stated: a stx-transfer with amount > 0 and from != to, in which  *)
(* from has less than amount to transfer and is not the tx sender, returns *)
(* code 1 (not-enough-balance).                                            *)
C14_BalanceBeforeAuth_Original ==
    [][\A sender \in Senders, amount \in 1..MaxAmount, from \in Principals, to \in Principals :
        (/\ Ran("stx-transfer", special_stx_transfer(Environment(sender), amount, from, to))
         /\ from # to /\ Unlocked(database, from) < amount /\ sender # Some(from))
        => ret'.result = Some(err_uint(1))
    ]_vars

(* C14 amended: stx-transfer checks amount-positivity, then self-transfer, *)
(* then authentication, then balance sufficiency: a call with amount > 0   *)
(* and from != to in which from has insufficient transferable balance and  *)
(* is not the tx sender returns code 4 (sender-is-not-tx-sender); code 1   *)
(* is returned only when from is the tx sender.                            *)
C14_AuthBeforeBalance ==
    \A sender \in Senders, amount \in 0..MaxAmount, from \in Principals, to \in Principals :
        special_stx_transfer(Environment(sender), amount, from, to).result =
            IF amount = 0 THEN Some(err_uint(3))
            ELSE IF from = to THEN Some(err_uint(2))
            ELSE IF sender # Some(from) THEN Some(err_uint(4))
            ELSE IF Unlocked(database, from) < amount THEN Some(err_uint(1))
            ELSE Some(okay_true)

\* No principal can transfer anything, and the last stx-transfer was
\* refused for its sender.
C14_Witness ==
    /\ op = "stx-transfer" /\ Failed(4)
    /\ \A p \in Principals : Unlocked(database, p) = 0

(* C15 as stated: for every ledger state and all argument values with      *)
(* from = to, stx-transfer, ft-transfer and nft-transfer return error code *)
(* 2 and change no balance or ownership record.                            *)
C15_SelfTransferFails_Original ==
    [][\A sender \in Senders, amount \in 0..MaxAmount, asset \in NftValues, p \in Principals :
        /\ Ran("stx-transfer", special_stx_transfer(Environment(sender), amount, p, p))
               => (ret'.result = Some(err_uint(2)) /\ database' = database)
        /\ Ran("ft-transfer", special_transfer_token(Environment(sender), amount, p, p))
               => (ret'.result = Some(err_uint(2)) /\ database' = database)
        /\ Ran("nft-transfer", special_transfer_asset(Environment(sender), asset, p, p))
               => (ret'.result = Some(err_uint(2)) /\ database' = database)
    ]_vars

(* C15 amended: for every ledger state and every tx sender, a stx-transfer *)
(* or ft-transfer with from = to and amount > 0, and an nft-transfer with  *)
(* from = to of a value of the asset's declared type, returns error code 2 *)
(* and changes no balance or ownership record; with amount = 0 the         *)
(* self-transfer returns code 3 instead.                                   *)
C15_SelfTransferFails ==
    \A sender \in Senders, amount \in 0..MaxAmount, asset \in NftValues, p \in Principals :
        /\ LET done == special_stx_transfer(Environment(sender), amount, p, p) IN
               /\ done.result = Some(err_uint(IF amount > 0 THEN 2 ELSE 3))
               /\ done.database = database
        /\ LET done == special_transfer_token(Environment(sender), amount, p, p) IN
               /\ done.result = Some(err_uint(IF amount > 0 THEN 2 ELSE 3))
               /\ done.database = database
        /\ LET done == special_transfer_asset(Environment(sender), asset, p, p) IN
               /\ done.result = Some(err_uint(2))
               /\ done.database = database

\* Code 2 is returned by a self-transfer only; here one was refused although
\* the principal that is tx sender holds STX, tokens and the NFT.
C15_Witness ==
    /\ op = "stx-transfer" /\ Failed(2)
    /\ \E p \in Principals :
           /\ Some(p) \in Senders
           /\ Unlocked(database, p) > 0
           /\ database.ft_balance[p] > 0
           /\ database.nft_owner["u1"] = Some(p)

(* C16 as stated: no stx-transfer or stx-burn decreases the STX balance of *)
(* a principal other than the tx sender, and a call with amount > 0 whose  *)
(* from is not the tx sender (or with no sender set) returns code 4 and    *)
(* leaves every balance unchanged.                                         *)
C16_OnlySenderDebited_Original ==
    [][\A sender \in Senders, amount \in 0..MaxAmount, from \in Principals, to \in Principals :
        /\ Ran("stx-transfer", special_stx_transfer(Environment(sender), amount, from, to)) =>
               /\ \A p \in Principals :
                      Unlocked(database', p) + Locked(database', p)
                          < Unlocked(database, p) + Locked(database, p) => sender = Some(p)
               /\ (amount > 0 /\ sender # Some(from)) =>
                      (ret'.result = Some(err_uint(4)) /\ database' = database)
        /\ Ran("stx-burn", special_stx_burn(Environment(sender), amount, from)) =>
               /\ \A p \in Principals :
                      Unlocked(database', p) + Locked(database', p)
                          < Unlocked(database, p) + Locked(database, p) => sender = Some(p)
               /\ (amount > 0 /\ sender # Some(from)) =>
                      (ret'.result = Some(err_uint(4)) /\ database' = database)
    ]_vars

(* C16 amended: no stx-transfer or stx-burn decreases the STX balance of a *)
(* principal other than the tx sender: a stx-burn with amount > 0, and a   *)
(* stx-transfer with amount > 0 and from != to, whose from is not the tx   *)
(* sender (or with no sender set) returns code 4 and leaves every balance  *)
(* unchanged; a stx-transfer with from = to returns code 2 whoever the     *)
(* sender is, and also changes nothing.                                    *)
C16_OnlySenderDebited ==
    \A sender \in Senders, amount \in 0..MaxAmount, from \in Principals, to \in Principals :
        /\ LET done == special_stx_transfer(Environment(sender), amount, from, to) IN
               /\ \A p \in Principals :
                      Unlocked(done.database, p) + Locked(done.database, p)
                          < Unlocked(database, p) + Locked(database, p) => sender = Some(p)
               /\ (amount > 0 /\ sender # Some(from)) =>
                      /\ done.result = Some(err_uint(IF from = to THEN 2 ELSE 4))
                      /\ done.database = database
        /\ LET done == special_stx_burn(Environment(sender), amount, from) IN
               /\ \A p \in Principals :
                      Unlocked(done.database, p) + Locked(done.database, p)
                          < Unlocked(database, p) + Locked(database, p) => sender = Some(p)
               /\ (amount > 0 /\ sender # Some(from)) =>
                      (done.result = Some(err_uint(4)) /\ done.database = database)

\* SP_CAROL is never the tx sender: a burn was refused with code 4 while
\* she holds STX received from a sender.
C16_Witness ==
    /\ op = "stx-burn" /\ Failed(4)
    /\ Some("SP_CAROL") \notin Senders
    /\ Unlocked(database, "SP_CAROL") > 0

(* C17 as stated: an ft-transfer with sufficient balance, and an           *)
(* nft-transfer whose from is the recorded owner, succeed whoever the tx   *)
(* sender is.                                                              *)
C17_NoAuthentication_Original ==
    [][\A sender \in Senders, amount \in 0..MaxAmount, asset \in NftValues,
         from \in Principals, to \in Principals :
        /\ (/\ Ran("ft-transfer", special_transfer_token(Environment(sender), amount, from, to))
            /\ database.ft_balance[from] >= amount)
               => ret'.result = Some(okay_true)
        /\ (/\ Ran("nft-transfer", special_transfer_asset(Environment(sender), asset, from, to))
            /\ database.nft_owner[asset] = Some(from))
               => ret'.result = Some(okay_true)
    ]_vars

(* C17 amended: ft-transfer and nft-transfer do not require from to be the *)
(* tx sender: an ft-transfer with amount > 0, from != to and sufficient    *)
(* balance, and an nft-transfer with from != to whose from is the recorded *)
(* owner, succeed whoever the tx sender is (also with no sender set), and  *)
(* move the amount, or the ownership, from from to to.                     *)
C17_NoAuthentication ==
    [][\A sender \in Senders, amount \in 1..MaxAmount, asset \in NftValues,
         from \in Principals, to \in Principals :
        /\ (/\ Ran("ft-transfer", special_transfer_token(Environment(sender), amount, from, to))
            /\ from # to
            /\ database.ft_balance[from] >= amount)
               => /\ ret'.result = Some(okay_true)
                  /\ database'.ft_balance[from] = database.ft_balance[from] - amount
                  /\ database'.ft_balance[to] = database.ft_balance[to] + amount
        /\ (/\ Ran("nft-transfer", special_transfer_asset(Environment(sender), asset, from, to))
            /\ from # to
            /\ database.nft_owner[asset] = Some(from))
               => /\ ret'.result = Some(okay_true)
                  /\ database'.nft_owner[asset] = Some(to)
    ]_vars

\* SP_CAROL is never the tx sender, and her token transfer succeeded.
C17_Witness ==
    /\ op = "ft-transfer" /\ Succeeded
    /\ Some("SP_CAROL") \notin Senders
    /\ Event.sender = "SP_CAROL"
    /\ database.ft_balance[Event.recipient] >= Event.amount
    /\ database.nft_owner["u1"] = Some("SP_CAROL")

(* C18: a stx-transfer, stx-burn or ft-transfer with amount = 0 returns    *)
(* code 3, an ft-mint with amount = 0 returns code 1, whatever the other   *)
(* arguments and the tx sender, and every STX balance, token balance and   *)
(* the total supply are the same after the call as before it.              *)
C18_ZeroAmountFails ==
    \A sender \in Senders, from \in Principals, to \in Principals :
        /\ LET done == special_stx_transfer(Environment(sender), 0, from, to) IN
               done.result = Some(err_uint(3)) /\ done.database = database
        /\ LET done == special_stx_burn(Environment(sender), 0, from) IN
               done.result = Some(err_uint(3)) /\ done.database = database
        /\ LET done == special_transfer_token(Environment(sender), 0, from, to) IN
               done.result = Some(err_uint(3)) /\ done.database = database
        /\ LET done == special_mint_token(Environment(sender), 0, to) IN
               done.result = Some(err_uint(1)) /\ done.database = database

\* ft-mint returns code 1 for a zero amount only; tokens and STX are held.
C18_Witness ==
    /\ op = "ft-mint" /\ Failed(1)
    /\ database.ft_supply > 0 /\ database.ft_supply < database.ft_total_supply
    /\ \E p \in Principals : Unlocked(database, p) > 0

(* C19 as stated: a successful stx-burn(amount, from) decreases from's     *)
(* unlocked balance by exactly amount and credits no one, so the STX total *)
(* decreases by exactly amount; a burn with amount above from's            *)
(* transferable balance returns code 1 and changes nothing.                *)
C19_BurnDestroysAmount_Original ==
    [][\A sender \in Senders, amount \in 1..MaxAmount, from \in Principals :
        Ran("stx-burn", special_stx_burn(Environment(sender), amount, from)) =>
            IF Unlocked(database, from) < amount
            THEN ret'.result = Some(err_uint(1)) /\ database' = database
            ELSE ret'.result = Some(okay_true) =>
                     /\ Unlocked(database', from) = Unlocked(database, from) - amount
                     /\ TotalStx(database') = TotalStx(database) - amount
                     /\ \A p \in Principals \ {from} : database'.stx[p] = database.stx[p]
    ]_vars

(* C19 amended: a successful stx-burn(amount, from) decreases from's       *)
(* transferable balance by exactly amount and credits no one, so the STX   *)
(* total decreases by exactly amount; a burn by the tx sender with amount  *)
(* above its transferable balance returns code 1 and changes nothing, and  *)
(* a burn whose from is not the tx sender returns code 4 and changes       *)
(* nothing, whatever the balance.                                          *)
C19_BurnDestroysAmount ==
    [][\A sender \in Senders, amount \in 1..MaxAmount, from \in Principals :
        Ran("stx-burn", special_stx_burn(Environment(sender), amount, from)) =>
            IF sender # Some(from)
            THEN ret'.result = Some(err_uint(4)) /\ database' = database
            ELSE IF Unlocked(database, from) < amount
            THEN ret'.result = Some(err_uint(1)) /\ database' = database
            ELSE /\ ret'.result = Some(okay_true)
                 /\ Unlocked(database', from) = Unlocked(database, from) - amount
                 /\ Locked(database', from) = Locked(database, from)
                 /\ TotalStx(database') = TotalStx(database) - amount
                 /\ \A p \in Principals \ {from} : database'.stx[p] = database.stx[p]
    ]_vars

\* A burn out of a balance whose other part stays locked.
C19_Witness ==
    /\ op = "stx-burn" /\ Succeeded
    /\ Locked(database, Event.sender) > 0
    /\ TotalStx(database) = TotalStx(InitDatabase) - Event.amount

(* C20: in every state reached by ft-mint and ft-transfer calls the        *)
(* total-supply record is at most the asset's declared maximum: an ft-mint *)
(* that would take the supply above the maximum fails (a runtime error)    *)
(* and leaves the supply and every balance unchanged, and any other        *)
(* ft-mint of a positive amount adds the amount to the supply.             *)
C20_SupplyWithinCap ==
    [][\A sender \in Senders, amount \in 1..MaxAmount, to \in Principals :
        /\ database'.ft_supply <= database'.ft_total_supply
        /\ database'.ft_total_supply = MaxSupply
        /\ Ran("ft-mint", special_mint_token(Environment(sender), amount, to)) =>
               IF database.ft_supply + amount > MaxSupply
               THEN ret'.result.tag = "Err" /\ database' = database
               ELSE /\ ret'.result = Some(okay_true)
                    /\ database'.ft_supply = database.ft_supply + amount
        /\ op' = "ft-transfer" => database'.ft_supply = database.ft_supply
    ]_vars

C20_Witness ==
    /\ op = "ft-mint" /\ ret.result = RuntimeError("SupplyOverflow")
    /\ database.ft_supply > 0
    /\ \E p, q \in Principals : p # q /\ database.ft_balance[p] > 0 /\ database.ft_balance[q] > 0

(* C21: ft-transfer(amount, from, to) with amount > 0 and from != to       *)
(* returns code 1 (not-enough-balance) and changes nothing when from's     *)
(* balance is below amount; otherwise it succeeds, decreases from's        *)
(* balance by amount and increases to's by amount, and leaves the total    *)
(* supply and every other principal's balance unchanged.                   *)
C21_TokenTransfer ==
    [][\A sender \in Senders, amount \in 1..MaxAmount, from \in Principals, to \in Principals :
        (/\ from # to
         /\ Ran("ft-transfer", special_transfer_token(Environment(sender), amount, from, to)))
        => IF database.ft_balance[from] < amount
           THEN /\ ret'.result = Some(err_uint(1))
                /\ database' = database
           ELSE /\ ret'.result = Some(okay_true)
                /\ database'.ft_balance[from] = database.ft_balance[from] - amount
                /\ database'.ft_balance[to] = database.ft_balance[to] + amount
                /\ database'.ft_supply = database.ft_supply
                /\ database'.ft_total_supply = database.ft_total_supply
                /\ \A p \in Principals \ {from, to} :
                       database'.ft_balance[p] = database.ft_balance[p]
    ]_vars

\* A transfer of part of a balance succeeded: sender and recipient both hold
\* tokens, and they add up to the supply.
C21_Witness ==
    /\ op = "ft-transfer" /\ Succeeded
    /\ Event.sender # Event.recipient
    /\ database.ft_balance[Event.sender] > 0
    /\ database.ft_balance[Event.recipient] = Event.amount
    /\ database.ft_balance[Event.sender] + database.ft_balance[Event.recipient] = database.ft_supply

(* C22: the first nft-mint of a value creates the ownership record for its *)
(* recipient; every later nft-mint of that value, to any recipient,        *)
(* returns code 1 (already-exists) and the recorded owner remains whoever  *)
(* owned the value before the call.                                        *)
C22_MintOnce ==
    [][\A sender \in Senders, asset \in NftValues, to \in Principals :
        Ran("nft-mint", special_mint_asset(Environment(sender), asset, to))
        => IF database.nft_owner[asset] = None
           THEN /\ ret'.result = Some(okay_true)
                /\ database'.nft_owner[asset] = Some(to)
                /\ \A v \in NftValues \ {asset} : database'.nft_owner[v] = database.nft_owner[v]
           ELSE /\ ret'.result = Some(err_uint(1))
                /\ database'.nft_owner = database.nft_owner
    ]_vars

\* A later mint of the minted value was refused, and the value has its owner.
C22_Witness ==
    /\ op = "nft-mint" /\ Failed(MintAssetErrorCodes.ALREADY_EXIST)
    /\ \E v \in NftValues : is_some(database.nft_owner[v])

(* C23: nft-transfer(value, from, to) with from != to returns code 3       *)
(* (does-not-exist) when the value has no ownership record, returns code 1 *)
(* (not-owned-by) when the recorded owner is not from, and changes no      *)
(* ownership record in either case; when the recorded owner is from it     *)
(* sets the owner to to.                                                   *)
C23_AssetTransfer ==
    [][\A sender \in Senders, asset \in NftValues, from \in Principals, to \in Principals :
        (/\ from # to
         /\ Ran("nft-transfer", special_transfer_asset(Environment(sender), asset, from, to)))
        => IF database.nft_owner[asset] = None
           THEN /\ ret'.result = Some(err_uint(3))
                /\ database'.nft_owner = database.nft_owner
           ELSE IF database.nft_owner[asset] # Some(from)
           THEN /\ ret'.result = Some(err_uint(1))
                /\ database'.nft_owner = database.nft_owner
           ELSE /\ ret'.result = Some(okay_true)
                /\ database'.nft_owner[asset] = Some(to)
                /\ \A v \in NftValues \ {asset} : database'.nft_owner[v] = database.nft_owner[v]
    ]_vars

\* A transfer by a principal that does not own the minted value was refused.
C23_Witness ==
    /\ op = "nft-transfer" /\ Failed(TransferAssetErrorCodes.NOT_OWNED_BY)
    /\ \E v \in NftValues : is_some(database.nft_owner[v])

----------------------------------------------------------------------------
(* The lock state machine *)

PoxLockCalls == (1..MaxAmount) \X (1..MaxBurnHeight)

(* C24: pox_lock on a principal that has an active lock (amount_locked > 0 *)
(* and the unlock height not reached) returns PoxAlreadyLocked, whatever   *)
(* amount is requested (below, at or above the unlocked balance), and      *)
(* leaves every persisted balance unchanged.                               *)
C24_AlreadyLocked ==
    [][\A principal \in Principals, call \in PoxLockCalls :
        (/\ Locked(database, principal) > 0
         /\ Ran("pox_lock", pox_lock(database, principal, call[1], call[2])))
        => /\ ret'.result = RuntimeError("PoxAlreadyLocked")
           /\ database'.stx = database.stx
    ]_vars

\* A lock was refused on a balance that has a lock and an unlocked amount
\* another lock could have taken.
C24_Witness ==
    /\ op = "pox_lock" /\ ret.result = RuntimeError("PoxAlreadyLocked")
    /\ \E p \in Principals : Locked(database, p) > 0 /\ Unlocked(database, p) > 0

(* C25: pox_lock on a principal with no active lock and a requested amount *)
(* above its transferable balance (unlocked amount plus a matured lock)    *)
(* returns PoxInsufficientBalance and leaves every persisted balance       *)
(* unchanged.                                                              *)
C25_InsufficientBalance ==
    [][\A principal \in Principals, call \in PoxLockCalls :
        (/\ Locked(database, principal) = 0
         /\ call[1] > Unlocked(database, principal)
         /\ Ran("pox_lock", pox_lock(database, principal, call[1], call[2])))
        => /\ ret'.result = RuntimeError("PoxInsufficientBalance")
           /\ database'.stx = database.stx
    ]_vars

\* A lock was refused for its amount while a principal holds a matured lock
\* that has not been folded into its persisted unlocked amount.
C25_Witness ==
    /\ op = "pox_lock" /\ ret.result = RuntimeError("PoxInsufficientBalance")
    /\ \E p \in Principals : Matured(database, p) /\ Unlocked(database, p) < MaxAmount

(* C26: a successful pox_lock(amount, unlock_height) moves exactly amount  *)
(* from the principal's unlocked (transferable) amount to amount_locked    *)
(* and sets unlock_height to the requested height; amount_unlocked +       *)
(* amount_locked of the principal is the same before and after, and no     *)
(* other principal's balance changes.                                      *)
C26_LockMovesAmount ==
    [][\A principal \in Principals, call \in PoxLockCalls :
        (/\ Ran("pox_lock", pox_lock(database, principal, call[1], call[2]))
         /\ ret'.result = Some("ok"))
        => /\ database'.stx[principal] =
                  STXBalance(Unlocked(database, principal) - call[1], call[1], call[2])
           /\ database'.stx[principal].amount_unlocked + database'.stx[principal].amount_locked
                  = database.stx[principal].amount_unlocked + database.stx[principal].amount_locked
           /\ \A p \in Principals \ {principal} : database'.stx[p] = database.stx[p]
    ]_vars

\* A lock of part of a balance succeeded and has not matured.
C26_Witness ==
    /\ op = "pox_lock" /\ ret.result = Some("ok")
    /\ \E p \in Principals :
          /\ database.stx[p].amount_locked > 0
          /\ database.stx[p].amount_unlocked > 0
          /\ database.stx[p].unlock_height > database.burn_block_height
          /\ database.burn_block_height > 0

(* C27: in every reachable state, after any sequence of credit, debit,     *)
(* transfer, burn, pox_lock and genesis-credit operations, every persisted *)
(* STX balance satisfies amount_locked > 0 implies unlock_height > 0.      *)
C27_LockedHasUnlockHeight ==
    \A p \in Principals :
        database.stx[p].amount_locked > 0 => database.stx[p].unlock_height > 0

\* A genesis credit was made while another principal holds a lock.
C27_Witness ==
    /\ op = "account_genesis_credit" /\ ret.result = Some("ok")
    /\ \E p \in Principals : database.stx[p].amount_locked > 0
    /\ \E p \in Principals : Matured(database, p)

(* C28 as stated: while the lock has not matured, every stx-transfer and   *)
(* stx-burn of more than amount_unlocked returns code 1 and pox_lock       *)
(* returns PoxAlreadyLocked; once it has matured the whole amount can be   *)
(* transferred and a new pox_lock succeeds.                                *)
C28_LockLifecycle_Original ==
    [][\A sender \in Senders, amount \in 1..MaxAmount, from \in Principals, to \in Principals :
        /\ (/\ Locked(database, from) > 0
            /\ amount > database.stx[from].amount_unlocked
            /\ Ran("stx-transfer", special_stx_transfer(Environment(sender), amount, from, to)))
           => ret'.result = Some(err_uint(1))
        /\ (/\ Locked(database, from) > 0
            /\ amount > database.stx[from].amount_unlocked
            /\ Ran("stx-burn", special_stx_burn(Environment(sender), amount, from)))
           => ret'.result = Some(err_uint(1))
        /\ (/\ Locked(database, from) > 0
            /\ \E h \in 1..MaxBurnHeight : Ran("pox_lock", pox_lock(database, from, amount, h)))
           => ret'.result = RuntimeError("PoxAlreadyLocked")
        /\ (/\ Matured(database, from)
            /\ sender = Some(from) /\ from # to
            /\ amount = database.stx[from].amount_unlocked + database.stx[from].amount_locked
            /\ Ran("stx-transfer", special_stx_transfer(Environment(sender), amount, from, to)))
           => ret'.result = Some(okay_true)
        /\ (/\ Matured(database, from)
            /\ amount <= database.stx[from].amount_unlocked + database.stx[from].amount_locked
            /\ \E h \in 1..MaxBurnHeight : Ran("pox_lock", pox_lock(database, from, amount, h)))
           => ret'.result = Some("ok")
    ]_vars

(* C28 amended: while the chain height is below unlock_height the locked   *)
(* amount cannot be transferred, burned or locked again: a stx-transfer    *)
(* (to another principal) or stx-burn of more than amount_unlocked made by *)
(* from as the tx sender returns code 1, a call not made by from returns   *)
(* code 4, a self-transfer code 2, and pox_lock returns PoxAlreadyLocked;  *)
(* none of them changes a balance.  Once the chain height reaches          *)
(* unlock_height the locked amount is folded into the transferable balance *)
(* on the next snapshot read: the tx sender can transfer the whole amount, *)
(* which leaves its balance all zero, and a new pox_lock succeeds.         *)
C28_LockLifecycle ==
    \A sender \in Senders, amount \in 1..MaxAmount, from \in Principals, to \in Principals :
        /\ (Locked(database, from) > 0 /\ amount > database.stx[from].amount_unlocked)
           => /\ LET done == special_stx_transfer(Environment(sender), amount, from, to) IN
                     /\ done.result =
                            Some(err_uint(IF from = to THEN 2 ELSE IF sender = Some(from) THEN 1 ELSE 4))
                     /\ done.database = database
              /\ LET done == special_stx_burn(Environment(sender), amount, from) IN
                     /\ done.result = Some(err_uint(IF sender = Some(from) THEN 1 ELSE 4))
                     /\ done.database = database
        /\ Locked(database, from) > 0
           => \A h \in 1..MaxBurnHeight :
                  LET done == pox_lock(database, from, amount, h) IN
                  /\ done.result = RuntimeError("PoxAlreadyLocked")
                  /\ done.database = database
        /\ (/\ Matured(database, from)
            /\ sender = Some(from) /\ from # to
            /\ amount = database.stx[from].amount_unlocked + database.stx[from].amount_locked)
           => LET done == special_stx_transfer(Environment(sender), amount, from, to) IN
                  /\ done.result = Some(okay_true)
                  /\ done.database.stx[from] = STXBalance(0, 0, 0)
                  /\ Unlocked(done.database, to) = Unlocked(database, to) + amount
        /\ (/\ Matured(database, from)
            /\ amount <= database.stx[from].amount_unlocked + database.stx[from].amount_locked)
           => \A h \in 1..MaxBurnHeight :
                  LET done == pox_lock(database, from, amount, h) IN
                  /\ done.result = Some("ok")
                  /\ done.database.stx[from].amount_locked = amount

\* A transfer was refused for its amount while every principal that can be
\* the tx sender holds a lock that has not matured: the refused amount was
\* above the unlocked part of a locked balance.
C28_Witness ==
    /\ op = "stx-transfer" /\ Failed(StxErrorCodes.NOT_ENOUGH_BALANCE)
    /\ database.burn_block_height > 0
    /\ \A p \in Principals : Some(p) \in Senders => Locked(database, p) > 0

(* C29: account_debit of an amount above the principal's transferable      *)
(* balance is fatal (the process aborts) and persists nothing; and in no   *)
(* reachable state is a persisted amount negative or wrapped around: every *)
(* amount is at least zero and all amounts together are within the STX     *)
(* that were ever credited.                                                *)
C29_DebitIsChecked ==
    /\ [][\A principal \in Principals, amount \in 0..MaxAmount :
            (/\ amount > Unlocked(database, principal)
             /\ Ran("account_debit", account_debit(database, principal, amount)))
            => /\ is_panic(ret'.result)
               /\ database' = database
        ]_vars
    /\ [](/\ \A p \in Principals :
               database.stx[p].amount_unlocked >= 0 /\ database.stx[p].amount_locked >= 0
          /\ TotalStx(database) <= MaxStx)

\* A debit aborted while one principal holds all STX, part of them locked.
C29_Witness ==
    /\ op = "account_debit" /\ is_panic(ret.result)
    /\ \A p \in Principals : TotalStx(database) > 0 =>
           database.stx[p].amount_unlocked + database.stx[p].amount_locked \in {0, TotalStx(database)}
    /\ \E p \in Principals : Locked(database, p) > 0 /\ database.stx[p].amount_unlocked > 0

(* C30: account_genesis_credit(principal, amount) increases the            *)
(* principal's amount_unlocked by amount (existing unlocked balance plus   *)
(* amount, overflow fatal) and leaves the principal's amount_locked and    *)
(* unlock_height as they were.                                             *)
C30_GenesisCreditFrame ==
    [][\A principal \in Principals, amount \in 0..MaxAmount :
        Ran("account_genesis_credit", account_genesis_credit(database, principal, amount))
        => /\ ret'.result = Some("ok")
           /\ database'.stx[principal].amount_unlocked = database.stx[principal].amount_unlocked + amount
           /\ database'.stx[principal].amount_locked = database.stx[principal].amount_locked
           /\ database'.stx[principal].unlock_height = database.stx[principal].unlock_height
           /\ \A p \in Principals \ {principal} : database'.stx[p] = database.stx[p]
    ]_vars

----------------------------------------------------------------------------
(* Rounding dust, the total commit and the miner row *)

\* No two rows of the resolved schedule name the same address.
DistinctAddresses ==
    \A i, j \in 1..Len(latest_matured_miners) :
        latest_matured_miners[i].address = latest_matured_miners[j].address => i = j

\* C * commit(row) is a multiple of the total commit: the row's share has no remainder.
DividesEvenly(row) == (MinerRow.coinbase * row.burnchain_commit_burn) % TotalCommit = 0

(* C31 as stated: with no poison report the shares sum to the declared     *)
(* coinbase C in single-participant schedules, and to strictly less than C *)
(* in every schedule with at least one burn-supporter.                     *)
C31_DustIsStrict_Original ==
    (Resolved /\ ~ReportFiled) =>
        IF UserRows = <<>>
        THEN SumCoinbase(AllRewards) = MinerRow.coinbase
        ELSE SumCoinbase(AllRewards) < MinerRow.coinbase

(* C31 amended: with no poison report and no address named by two rows,    *)
(* the shares sum to at most the declared coinbase C; the sum equals C     *)
(* exactly when every participant's C * commit is a multiple of the total  *)
(* commit, which is so in every single-participant schedule and also in    *)
(* schedules with burn-supporters (C = 500 split 1 : 3), and is strictly   *)
(* less than C otherwise.                                                  *)
C31_DustIffRemainder ==
    (Resolved /\ ~ReportFiled /\ DistinctAddresses) =>
        /\ SumCoinbase(AllRewards) <= MinerRow.coinbase
        /\ SumCoinbase(AllRewards) = MinerRow.coinbase
               <=> \A i \in 1..Len(latest_matured_miners) : DividesEvenly(latest_matured_miners[i])
        /\ UserRows = <<>> => SumCoinbase(AllRewards) = MinerRow.coinbase

\* Miner and one supporter share 500 as 125 and 375: nothing is lost to rounding.
C31_Witness ==
    /\ Resolved /\ ~ReportFiled /\ DistinctAddresses
    /\ Len(UserRows) = 1
    /\ MinerRow.coinbase = 500
    /\ Out.miner_reward.coinbase = 125 /\ Out.user_rewards[1].coinbase = 375

(* C32: every schedule that insert_miner_payment_schedule accepted and     *)
(* that has matured has a total commit-burn above 0 when it is resolved,   *)
(* so find_mature_miner_rewards never divides by zero.                     *)
C32_TotalCommitPositive ==
    (Called /\ ~no_mature_rewards(tip)) =>
        /\ TotalCommit > 0
        /\ ret # Panic("attempt to divide by zero")

\* The table after the first n accepted blocks were each scheduled once, in order.
RECURSIVE ScheduledOnce(_)
ScheduledOnce(n) ==
    IF n = 0 THEN <<>>
    ELSE insert_miner_payment_schedule(ScheduledOnce(n - 1), accepted[n].block_reward,
                                       accepted[n].user_burns).v

(* C33: get_miner_info returns None when the block has no miner = true     *)
(* row, that row when it has exactly one, and is fatal when it has         *)
(* several; when every accepted block was scheduled once, each of them has *)
(* exactly one miner = true row and the lookup is never fatal.             *)
C33_MinerInfo ==
    LET stored == miner_rows(payments, tip) IN
    /\ op = "get_miner_info" =>
          /\ Len(stored) = 0 => ret = Some(None)
          /\ Len(stored) = 1 => ret = Some(from_row(stored[1]))
          /\ Len(stored) > 1 => ret = Panic("Multiple miners")
    /\ payments = ScheduledOnce(Len(accepted)) =>
          /\ \A id \in DOMAIN headers \ {0} :
                /\ Len(miner_rows(payments, headers[id])) = 1
                /\ get_miner_info(payments, headers[id].consensus_hash, headers[id].block_hash)
                       = Some(Some(accepted[id].block_reward))
          /\ op = "get_miner_info" => ~is_panic(ret)

\* All three outcomes at once: block 2 has two miner rows and its lookup was
\* fatal, block 1 has one, genesis has none.
C33_Witness ==
    /\ op = "get_miner_info"
    /\ 2 \in DOMAIN headers
    /\ tip = headers[2]
    /\ ret = Panic("Multiple miners")
    /\ Len(miner_rows(payments, headers[2])) = 2
    /\ get_miner_info(payments, headers[1].consensus_hash, headers[1].block_hash)
          = Some(Some(accepted[1].block_reward))
    /\ get_miner_info(payments, headers[0].consensus_hash, headers[0].block_hash) = Some(None)

(* C34: in the resolution output the miner's MinerReward has vtxindex 0    *)
(* and the MinerReward of each burn-supporter has that supporter's own     *)
(* vtxindex, which is above 0.                                             *)
C34_RewardVtxindex ==
    Resolved =>
        /\ Out.miner_reward.vtxindex = 0
        /\ \A i \in 1..Len(Out.user_rewards) :
              /\ Out.user_rewards[i].vtxindex > 0
              /\ Out.user_rewards[i].vtxindex = UserRows[i].vtxindex

----------------------------------------------------------------------------
(* The life of a schedule along a fork *)

\* What block processing on top of the tip t looks up.
ScheduledAt(t) == get_scheduled_block_rewards(payments, headers, headers[t])
\* The blocks whose rows the lookup returns at the tip t and that are resolved
\* there.
ResolvedAt(t) ==
    LET scheduled == ScheduledAt(t)
        resolution == find_mature_miner_rewards(mainnet, poison_reports, headers[t], scheduled.v)
    IN  IF ~is_some(scheduled) THEN {}
        ELSE IF scheduled.v = <<>> \/ ~is_some(resolution) THEN {}
        ELSE IF ~is_some(resolution.v) THEN {}
        ELSE { id \in DOMAIN headers :
                 /\ \A i \in 1..Len(scheduled.v) :
                       /\ scheduled.v[i].block_hash = headers[id].block_hash
                       /\ scheduled.v[i].consensus_hash = headers[id].consensus_hash
                 /\ resolution.v.v.reward_info =
                       [from_stacks_block_hash |-> headers[id].block_hash,
                        from_block_consensus_hash |-> headers[id].consensus_hash] }

\* The tips of the fork ending in tip_id at which block id is resolved.
ResolvingTips(tip_id, id) ==
    { t \in DOMAIN headers : OnForkOf(t, headers[tip_id]) /\ id \in ResolvedAt(t) }

MatureAssertions ==
    { Panic("assert latest_matured_miners.len() > 0"),
      Panic("assert latest_matured_miners[0].vtxindex == 0"),
      Panic("assert latest_matured_miners[0].miner") }

(* C36: at every tip of the chain, find_mature_miner_rewards given the     *)
(* list get_scheduled_block_rewards returns for the same tip trips none of *)
(* its assertions, and the two agree on the tips that have a mature        *)
(* reward: the list is non-empty exactly when the tip is above             *)
(* MINER_REWARD_MATURITY, which is exactly when the result is not None.    *)
C36_LookupAgreesWithResolution ==
    \A t \in DOMAIN headers :
        LET scheduled == ScheduledAt(t)
            resolution == find_mature_miner_rewards(mainnet, poison_reports, headers[t],
                                                    scheduled.v)
        IN  /\ is_some(scheduled)
            /\ resolution \notin MatureAssertions
            /\ scheduled.v # <<>> <=> headers[t].block_height > MINER_REWARD_MATURITY
            /\ resolution # Some(None) <=> headers[t].block_height > MINER_REWARD_MATURITY
            /\ (Called /\ tip = headers[t]) =>
                  /\ latest_matured_miners = scheduled.v
                  /\ ret \notin MatureAssertions
                  /\ ret # Some(None) <=> latest_matured_miners # <<>>

\* Block processing ran at the tip of height MINER_REWARD_MATURITY, where the
\* two tests differ: the lookup went to genesis and returned no rows, and the
\* resolution returned None without reaching its assertions.
C36_Witness ==
    /\ Called
    /\ tip.block_height = MINER_REWARD_MATURITY
    /\ ~(tip.block_height < MINER_REWARD_MATURITY)
    /\ latest_matured_miners = <<>>
    /\ ret = Some(None)
    /\ \E t \in DOMAIN headers :
          /\ headers[t].block_height > MINER_REWARD_MATURITY
          /\ Len(ScheduledAt(t).v) > 1

----------------------------------------------------------------------------
(* Supply, balances and ownership records *)

\* The sum of all principals' balances of the fungible asset.
SumFt(db) == SumOver(db.ft_balance, Principals)

\* The step is a successful ft-mint or ft-transfer whose recipient is p.
Receives(p) ==
    /\ op' \in {"ft-mint", "ft-transfer"}
    /\ ret'.result = Some(okay_true)
    /\ ret'.events[1].recipient = p

(* C37: in every state reached by ft-mint and ft-transfer calls the sum of *)
(* all principals' balances equals the total-supply record; a principal's  *)
(* balance is 0 until a successful ft-mint or ft-transfer names it as the  *)
(* recipient, and ft-get-balance returns the principal's balance (so 0     *)
(* until then) and changes no record.                                      *)
C37_SupplyIsSumOfBalances ==
    /\ \A p \in Principals : database.ft_balance[p] = 0
    /\ [](SumFt(database) = database.ft_supply)
    /\ [][\A p \in Principals :
            /\ (database.ft_balance[p] = 0 /\ ~Receives(p)) => database'.ft_balance[p] = 0
            /\ \A sender \in Senders :
                  Ran("ft-get-balance", special_get_balance(Environment(sender), p))
                  => /\ ret'.result = Some(UInt(database.ft_balance[p]))
                     /\ database' = database
        ]_vars

\* The whole supply was minted and part of it transferred, two principals
\* hold it, and ft-get-balance returned 0 for the third.
C37_Witness ==
    /\ op = "ft-get-balance"
    /\ ret.result = Some(UInt(0))
    /\ database.ft_supply = MaxSupply
    /\ database.ft_balance["SP_ALICE"] > 0
    /\ database.ft_balance["SP_BOB"] > 0
    /\ database.ft_balance["SP_CAROL"] = 0

\* Every ft-mint call that can be made in the current state.
MintCalls == Senders \X (0..MaxAmount) \X Principals \X MemoryLeft
MintEnv(call) == LimitedEnvironment(call[1], call[4])
Minted(call) == special_mint_token(MintEnv(call), call[2], call[3])
\* By how much a call's database differs from the one the call started with.
SupplyUp(call, outcome) == outcome.database.ft_supply - database.ft_supply
BalanceUp(call, outcome) == outcome.database.ft_balance[call[3]] - database.ft_balance[call[3]]

(* C38 as stated: the database one ft-mint call leaves, before any         *)
(* rollback by the enclosing scope, never has the supply increased without *)
(* the recipient's balance increased by the same amount, also when the     *)
(* call ends in an error raised after the supply increase.                 *)
C38_MintAtomic_Original ==
    \A call \in MintCalls : SupplyUp(call, Minted(call)) = BalanceUp(call, Minted(call))

(* C38 amended: an ft-mint call that returns ok leaves the supply and the  *)
(* recipient's balance both increased by amount, and one that fails before *)
(* the supply increase leaves the database as it was; one that ends in the *)
(* memory error raised after the supply increase leaves the supply         *)
(* increased by amount and the balance unchanged.  Only after the          *)
(* enclosing scope has rolled the failed call back are the two equal       *)
(* again: the database the scope keeps is the one the call started with,   *)
(* and the supply equals the sum of the balances in every state.           *)
C38_MintAtomicInScope ==
    /\ SumFt(database) = database.ft_supply
    /\ \A call \in MintCalls :
          LET done == Minted(call)
              kept == rolled_back(MintEnv(call), done)
          IN  /\ done.result = Some(okay_true) =>
                    SupplyUp(call, done) = call[2] /\ BalanceUp(call, done) = call[2]
              /\ done.result = RuntimeError("MemoryBalanceExceeded") =>
                    SupplyUp(call, done) = call[2] /\ BalanceUp(call, done) = 0
              /\ done.result \notin {Some(okay_true), RuntimeError("MemoryBalanceExceeded")} =>
                    done.database = database
              /\ SupplyUp(call, kept) = BalanceUp(call, kept)
              /\ kept.result # Some(okay_true) => kept.database = database

\* An ft-mint ended in the memory error after it had increased the supply,
\* and the scope rolled it back: the supply, part of the maximum, is still
\* the sum of the balances.
C38_Witness ==
    /\ op = "ft-mint"
    /\ ret.result = RuntimeError("MemoryBalanceExceeded")
    /\ database.ft_supply > 0
    /\ database.ft_supply < MaxSupply
    /\ SumFt(database) = database.ft_supply

(* C39: while the supply is within the asset's maximum, itself at most the *)
(* largest u128, no ft-mint call aborts with the balance-overflow panic    *)
(* and no ft-transfer call returns ArithmeticOverflow: the balances add up *)
(* to the supply, so the recipient's balance plus the amount never exceeds *)
(* the largest u128.                                                       *)
C39_NoBalanceOverflow ==
    /\ SumFt(database) = database.ft_supply
    /\ database.ft_supply <= database.ft_total_supply
    /\ database.ft_total_supply <= U128_MAX
    /\ \A sender \in Senders, amount \in CapAmounts, to \in Principals :
          /\ special_mint_token(Environment(sender), amount, to).result # Panic("STX overflow")
          /\ \A from \in Principals :
                special_transfer_token(Environment(sender), amount, from, to).result
                    # RuntimeError("ArithmeticOverflow")

\* The supply is at the largest u128 and, after a successful transfer, one
\* principal holds all of it: the checked addition reached the largest value
\* it can hold.
C39_Witness ==
    /\ op = "ft-transfer"
    /\ Succeeded
    /\ database.ft_supply = U128_MAX
    /\ \E p \in Principals : database.ft_balance[p] = U128_MAX

(* C40: an ownership record, once created by nft-mint, is there in every   *)
(* later state and names one principal; it is created only by a successful *)
(* nft-mint and changes only in a successful nft-transfer whose from is    *)
(* the owner recorded before the call; nft-get-owner returns none when the *)
(* value has no record and some(owner) when it has one, and changes no     *)
(* record.                                                                 *)
C40_OwnershipRecord ==
    /\ [](\A v \in NftValues :
             database.nft_owner[v] \in {None} \cup {Some(p) : p \in Principals})
    /\ [][\A v \in NftValues :
            /\ is_some(database.nft_owner[v]) => is_some(database'.nft_owner[v])
            /\ (~is_some(database.nft_owner[v]) /\ is_some(database'.nft_owner[v])) =>
                  /\ op' = "nft-mint"
                  /\ ret'.result = Some(okay_true)
                  /\ ret'.events[1].value = v
                  /\ database'.nft_owner[v] = Some(ret'.events[1].recipient)
            /\ (is_some(database.nft_owner[v]) /\ database'.nft_owner[v] # database.nft_owner[v]) =>
                  /\ op' = "nft-transfer"
                  /\ ret'.result = Some(okay_true)
                  /\ ret'.events[1].value = v
                  /\ ret'.events[1].sender = database.nft_owner[v].v
                  /\ database'.nft_owner[v] = Some(ret'.events[1].recipient)
            /\ \A sender \in Senders :
                  Ran("nft-get-owner", special_get_owner(Environment(sender), v))
                  => /\ ret'.result = IF database.nft_owner[v] = None THEN Some(none)
                                       ELSE Some(some(database.nft_owner[v].v))
                     /\ database' = database
        ]_vars

\* nft-get-owner returned the owner of a minted value.
C40_Witness ==
    /\ op = "nft-get-owner"
    /\ \E v \in NftValues :
          /\ is_some(database.nft_owner[v])
          /\ ret.result = Some(some(database.nft_owner[v].v))

====
